---- MODULE Spec2Model ----
(***************************************************************************)
(* Model of the OSS-Fuzz issue-report scraper                              *)
(* (src/program/preparation/5_get_issue_reports.py).                       *)
(*                                                                         *)
(* Two specifications share the module:                                    *)
(*   Spec      one worker process (run_scraper_instance) driving get_issue *)
(*             and scrape_revision_details against an unreliable page      *)
(*             automation session, and persisting batches (save_to_csv);   *)
(*   SpecMain  main(): target-file parsing, re-scrape filter, resolution   *)
(*             of the work set against prior batches, partitioning.        *)
(*                                                                         *)
(* Text.  A Python str is a sequence of atoms.  An atom is a single        *)
(* character, or a literal fragment of several characters none of which is *)
(* significant to the operations applied to the text ('/', '=', ':', '"',  *)
(* digits and the leading "http" are always single-character atoms where   *)
(* the code inspects them).                                                *)
(*                                                                         *)
(* Values.  A record value (None, bool, str, list of str, list of lists of *)
(* str) is [kind, items] with items a sequence of sequences of texts, so   *)
(* that all values have one shape.                                         *)
(***************************************************************************)
EXTENDS Integers, Sequences, FiniteSets, TLC

VARIABLES
    \* ---- run_scraper_instance ----
    issue_numbers,      \* the partition handed to the worker
    save_interval,      \* flush threshold
    idx,                \* number of issues the for loop has finished
    pc,                 \* position of the worker: "loop", "load", "extract",
                        \* "sub", "subpage", "return", "done"
    results_batch,      \* in-memory batch
    file_counter,       \* index of the next batch file
    driver,             \* the automation session: [session, current_url]
    files,              \* batch files on disk: index -> CSV content
    \* ---- get_issue / scrape_revision_details ----
    attempt,            \* consumed iterations of the issue-page load loop
    issue_infos,        \* the record under construction
    main_issue_url,     \* URL of the loaded issue page
    sub_idx,            \* position in url_keys_to_scrape
    sub_attempt,        \* consumed iterations of the sub-page load loop
    original_url,       \* driver.current_url when scrape_revision_details began
    \* ---- history of the current issue ----
    nav_count,          \* driver.get(initial_url) calls of the load loop
    plain_timeouts,     \* timeouts without a throttle indicator
    throttles,          \* timeouts with the throttle indicator displayed
    load_result,        \* "none" | "ok" | "failed"
    extracted,          \* issue_infos as it was when description parsing ended
    sub_navs,           \* driver.get(url_to_scrape) calls of the sub-page loop
    sub_log,            \* <<[key, navs, result, from, back, confirmed, at]>> per
                        \* sub-page extraction: its key, its driver.get(url_to_scrape)
                        \* calls, its outcome, the URL the finally block found, the
                        \* driver.get(main_issue_url) calls of the finally block,
                        \* whether the wait of line 289 succeeded, the URL left
    \* ---- history of the worker ----
    visited,            \* issue numbers get_issue was called with
    n_exc,              \* uncaught exceptions seen by the worker
    quits,              \* sessions quit
    session_events,     \* "new" per webdriver.Chrome(), "quit" per driver.quit()
    batch_reqs,         \* the issue number each record of results_batch answers
    flush_log,          \* every save_to_csv call with a non-empty batch
    \* ---- main ----
    mpc,                \* position of main()
    target_lines,       \* lines of TARGET_IDS_FILE
    prior_batches,      \* CSV files already under BASE_RESULTS_DIR
    merged,             \* merged_output.csv as read by pandas
    filter_conditions,  \* the re-scrape filter
    all_target_ids,
    id_list,
    processed_ids,
    ids_to_process,
    chunks,
    \* ---- split_revision_range ----
    spc,                \* position of the call: "idle", "call", "returned"
    text,               \* the argument
    rev_parts,          \* the value returned
    \* ---- description parsing of get_issue ----
    desc_src,           \* how each line of the description was composed
    description_lines,  \* full_description_text.split('\n')
    line_idx,           \* lines the loop has consumed
    current_key,        \* the cursor
    \* ---- save_to_csv and reading a batch file back ----
    cpc,                \* "idle", "save", "saved", "lost", "loaded"
    csv_data,           \* the data_list handed to save_to_csv
    csv_text,           \* the text of the file written
    read_back,          \* the rows read back, every cell JSON-decoded
    \* ---- the worker processes main() starts ----
    procs,              \* per process: its arguments and the state of its loop
    disk,               \* the batch files of the run: path -> [by, ids]
    overwritten,        \* paths opened for writing more than once
    \* ---- the timeline scan of get_issue ----
    event_kinds,        \* how each event of the timeline was composed
    events,             \* the div.bv2-event elements, in page order (oldest first)
    examined,           \* positions of the events the loop has taken, in order
    \* ---- the metadata block of get_issue ----
    field_containers,   \* the field elements of <edit-issue-metadata>
    field_idx           \* fields the loop has consumed

workerVars == <<issue_numbers, save_interval, idx, pc, results_batch,
                file_counter, driver, files, attempt, issue_infos,
                main_issue_url, sub_idx, sub_attempt, original_url, nav_count,
                plain_timeouts, throttles, load_result, extracted, sub_navs,
                sub_log, visited, n_exc, quits, session_events, batch_reqs,
                flush_log>>

mainVars == <<mpc, target_lines, prior_batches, merged, filter_conditions,
              all_target_ids, id_list, processed_ids, ids_to_process, chunks>>

splitVars == <<spc, text, rev_parts>>

\* The state of the functions exercised on their own
descVars == <<desc_src, description_lines, line_idx, current_key>>

csvVars == <<cpc, csv_data, csv_text, read_back>>

poolVars == <<procs, disk, overwritten>>

scanVars == <<event_kinds, events, examined>>

metaVars == <<field_containers, field_idx>>

libVars == <<splitVars, descVars, csvVars, poolVars, scanVars, metaVars>>

vars == <<workerVars, mainVars, libVars>>

-----------------------------------------------------------------------------
(* Bounds of the model *)

MaxIssues == 2          \* longest partition handed to the worker
MaxSaveInterval == 2    \* largest save_interval tried
MaxLines == 3           \* longest target file built from LineSamples
MaxManyIds == 17        \* most numeric lines of a generated target file
MaxSide == 12           \* longest colon-free stretch of a revision-range text
MaxColons == 2          \* most colons of a revision-range text
MaxDescLines == 3       \* longest description built from DescLineSamples
MaxBatch == 3           \* longest batch written and read back
MaxPoolIds == 9         \* most IDs handed to the worker processes
MaxEvents == 3          \* most events of a timeline
MaxCards == 3           \* most person hovercards of a metadata field
MaxFields == 2          \* most fields of a metadata block built from FieldSamples

-----------------------------------------------------------------------------
(* Text helpers *)

Digits == {"0", "1", "2", "3", "4", "5", "6", "7", "8", "9"}

DigitOf(d) ==
    CASE d = 0 -> "0" [] d = 1 -> "1" [] d = 2 -> "2" [] d = 3 -> "3"
      [] d = 4 -> "4" [] d = 5 -> "5" [] d = 6 -> "6" [] d = 7 -> "7"
      [] d = 8 -> "8" [] d = 9 -> "9"

DigitVal(c) ==
    CASE c = "0" -> 0 [] c = "1" -> 1 [] c = "2" -> 2 [] c = "3" -> 3
      [] c = "4" -> 4 [] c = "5" -> 5 [] c = "6" -> 6 [] c = "7" -> 7
      [] c = "8" -> 8 [] c = "9" -> 9

\* str(n) / f"{n}" for a non-negative int
RECURSIVE IntToStr(_)
IntToStr(n) ==
    IF n < 10 THEN <<DigitOf(n)>>
    ELSE Append(IntToStr(n \div 10), DigitOf(n % 10))

\* str.isdigit(): non-empty and every character a digit
IsDigit(s) == Len(s) > 0 /\ \A k \in 1..Len(s) : s[k] \in Digits

\* int(s) for a text for which IsDigit holds
RECURSIVE StrToInt(_)
StrToInt(s) ==
    IF Len(s) = 0 THEN 0
    ELSE StrToInt(SubSeq(s, 1, Len(s) - 1)) * 10 + DigitVal(s[Len(s)])

SetMax(S) == CHOOSE x \in S : \A y \in S : y <= x

\* s.split(sep)[-1] for a one-character sep
LastPart(s, sep) ==
    LET at == {k \in 1..Len(s) : s[k] = sep}
    IN  IF at = {} THEN s ELSE SubSeq(s, SetMax(at) + 1, Len(s))

\* s.split(sep): the pieces between the occurrences of sep
RECURSIVE SplitOn(_, _)
SplitOn(s, sep) ==
    LET at == {k \in 1..Len(s) : s[k] = sep}
    IN  IF at = {} THEN <<s>>
        ELSE Append(SplitOn(SubSeq(s, 1, SetMax(at) - 1), sep),
                    SubSeq(s, SetMax(at) + 1, Len(s)))

StartsWith(s, p) == Len(s) >= Len(p) /\ SubSeq(s, 1, Len(p)) = p

Http == <<"h", "t", "t", "p">>

-----------------------------------------------------------------------------
(* Record values *)

Null == [kind |-> "null", items |-> <<>>]
Bool(b) == [kind |-> "bool", items |-> << <<IF b THEN <<"true">> ELSE <<"false">>>> >>]
Str(t) == [kind |-> "str", items |-> << <<t>> >>]
List(ts) == [kind |-> "list", items |-> [k \in 1..Len(ts) |-> <<ts[k]>>]]
\* a list of lists of str; the empty list is the one empty list
Lists(tss) == IF Len(tss) = 0 THEN [kind |-> "list", items |-> <<>>]
              ELSE [kind |-> "lists", items |-> tss]

TextOf(v) == v.items[1][1]

\* dict.get(key): None when the key is missing
Get(d, key) == IF key \in DOMAIN d THEN d[key] ELSE Null

\* d[key] = value on a dict
Put(d, key, value) ==
    [k \in DOMAIN d \cup {key} |-> IF k = key THEN value ELSE d[k]]

-----------------------------------------------------------------------------
(* JSON cells and batch files: save_to_csv, load_processed_ids_from_csvs *)

Quote == "\""
Backslash == "\\"

\* The escape sequence json.dumps writes for one character of a str
EscapeChar(c) ==
    CASE c = Quote     -> <<Backslash, Quote>>
      [] c = Backslash -> <<Backslash, Backslash>>
      [] c = "\n"      -> <<Backslash, "n">>
      [] c = "\r"      -> <<Backslash, "r">>
      [] c = "\t"      -> <<Backslash, "t">>
      [] OTHER         -> <<c>>

RECURSIVE Escape(_)
Escape(t) == IF Len(t) = 0 THEN <<>> ELSE EscapeChar(t[1]) \o Escape(Tail(t))

\* json.dumps of a str
JsonString(t) == <<Quote>> \o Escape(t) \o <<Quote>>

\* the items of a list of str, separated by ', '
RECURSIVE JoinTexts(_)
JoinTexts(ts) ==
    IF Len(ts) = 0 THEN <<>>
    ELSE IF Len(ts) = 1 THEN JsonString(ts[1])
    ELSE JoinTexts(SubSeq(ts, 1, Len(ts) - 1)) \o <<",", " ">> \o JsonString(ts[Len(ts)])

RECURSIVE JoinLists(_)
JoinLists(tss) ==
    IF Len(tss) = 0 THEN <<>>
    ELSE IF Len(tss) = 1 THEN <<"[">> \o JoinTexts(tss[1]) \o <<"]">>
    ELSE JoinLists(SubSeq(tss, 1, Len(tss) - 1)) \o <<",", " ", "[">>
            \o JoinTexts(tss[Len(tss)]) \o <<"]">>

\* json.dumps(value, ensure_ascii=False)
JsonDumps(v) ==
    CASE v.kind = "null"  -> <<"null">>
      [] v.kind = "bool"  -> v.items[1][1]
      [] v.kind = "num"   -> v.items[1][1]
      [] v.kind = "str"   -> JsonString(v.items[1][1])
      [] v.kind = "list"  -> <<"[">> \o JoinTexts([k \in 1..Len(v.items) |-> v.items[k][1]]) \o <<"]">>
      [] v.kind = "lists" -> <<"[">> \o JoinLists(v.items) \o <<"]">>

JsonFail == [ok |-> FALSE, val |-> <<>>, next |-> 0]

\* The first position >= i of t that holds no JSON whitespace
RECURSIVE SkipWs(_, _)
SkipWs(t, i) ==
    IF i <= Len(t) /\ t[i] \in {" ", "\n", "\r", "\t"} THEN SkipWs(t, i + 1) ELSE i

\* The rest of a JSON string whose opening quote has been read: the decoded
\* text and the position after the closing quote.  The escapes \b, \f and
\* \uXXXX are not decoded (json.dumps with ensure_ascii=False writes them
\* only for control characters, which no text of the model contains).
RECURSIVE ScanString(_, _, _)
ScanString(t, i, acc) ==
    IF i > Len(t) \/ t[i] \in {"\n", "\r", "\t"} THEN JsonFail
    ELSE IF t[i] = Quote THEN [ok |-> TRUE, val |-> acc, next |-> i + 1]
    ELSE IF t[i] # Backslash THEN ScanString(t, i + 1, Append(acc, t[i]))
    ELSE IF i + 1 > Len(t) THEN JsonFail
    ELSE IF t[i + 1] \in {Quote, Backslash, "/"} THEN ScanString(t, i + 2, Append(acc, t[i + 1]))
    ELSE IF t[i + 1] = "n" THEN ScanString(t, i + 2, Append(acc, "\n"))
    ELSE IF t[i + 1] = "r" THEN ScanString(t, i + 2, Append(acc, "\r"))
    ELSE IF t[i + 1] = "t" THEN ScanString(t, i + 2, Append(acc, "\t"))
    ELSE JsonFail

\* The strings of a JSON array from the element at position i on
RECURSIVE ScanStrings(_, _, _)
ScanStrings(t, i, acc) ==
    IF i > Len(t) \/ t[i] # Quote THEN JsonFail
    ELSE LET str == ScanString(t, i + 1, <<>>)
             j == SkipWs(t, str.next)
         IN  IF ~str.ok \/ j > Len(t) THEN JsonFail
             ELSE IF t[j] = "]"
                  THEN [ok |-> TRUE, val |-> Append(acc, str.val), next |-> j + 1]
             ELSE IF t[j] = ","
                  THEN ScanStrings(t, SkipWs(t, j + 1), Append(acc, str.val))
             ELSE JsonFail

\* A JSON array of strings whose '[' is at position i
ScanList(t, i) ==
    LET j == SkipWs(t, i + 1)
    IN  IF j <= Len(t) /\ t[j] = "]" THEN [ok |-> TRUE, val |-> <<>>, next |-> j + 1]
        ELSE ScanStrings(t, j, <<>>)

\* The arrays of a JSON array of arrays of strings from position i on
RECURSIVE ScanLists(_, _, _)
ScanLists(t, i, acc) ==
    IF i > Len(t) \/ t[i] # "[" THEN JsonFail
    ELSE LET lst == ScanList(t, i)
             j == SkipWs(t, lst.next)
         IN  IF ~lst.ok \/ j > Len(t) THEN JsonFail
             ELSE IF t[j] = "]"
                  THEN [ok |-> TRUE, val |-> Append(acc, lst.val), next |-> j + 1]
             ELSE IF t[j] = ","
                  THEN ScanLists(t, SkipWs(t, j + 1), Append(acc, lst.val))
             ELSE JsonFail

\* json.loads(cell): [ok, val]; ok = FALSE is JSONDecodeError.  Cells are
\* null, booleans, non-negative integers, strings, arrays of strings and
\* arrays of arrays of strings (what save_to_csv writes for the records of
\* the model); anything else is reported as an error.
JsonLoads(t) ==
    LET bad == [ok |-> FALSE, val |-> Null]
        Whole(r, v) == IF r.ok /\ r.next = Len(t) + 1 THEN [ok |-> TRUE, val |-> v] ELSE bad
    IN  CASE t = <<"null">>  -> [ok |-> TRUE, val |-> Null]
          [] t = <<"true">>  -> [ok |-> TRUE, val |-> Bool(TRUE)]
          [] t = <<"false">> -> [ok |-> TRUE, val |-> Bool(FALSE)]
          [] Len(t) >= 1 /\ t[1] = Quote ->
                LET r == ScanString(t, 2, <<>>) IN Whole(r, Str(r.val))
          [] Len(t) >= 1 /\ t[1] = "[" ->
                LET j == SkipWs(t, 2)
                IN  IF j <= Len(t) /\ t[j] = "["
                    THEN LET r == ScanLists(t, j, <<>>) IN Whole(r, Lists(r.val))
                    ELSE LET r == ScanList(t, 1) IN Whole(r, List(r.val))
          [] IsDigit(t) /\ (Len(t) = 1 \/ t[1] # "0")
                             -> [ok |-> TRUE, val |-> [kind |-> "num", items |-> << <<t>> >>]]
          [] OTHER           -> bad

\* The keys of the records of the model in the order sorted() gives them
SortedKeyOrder ==
    << "Build log", "Build type", "Crash Address", "Crash Revision",
       "Crash State", "Crash Type", "Download", "Fixed",
       "Fuzz Target", "Fuzz target binary", "Fuzzer", "Fuzzer binary",
       "Fuzzing Engine", "Job Type", "Minimized Testcase", "Platform Id",
       "Project", "Recommended Security Severity", "Regressed", "Reproducer Testcase",
       "Sanitizer", "Unminimized Testcase", "crash_buildtime", "crash_components",
       "crash_revisions", "error", "fixed_buildtime", "fixed_components",
       "fixed_revisions", "fixed_time", "hotlists", "id",
       "regressed_buildtime", "regressed_components", "regressed_revisions", "reported_time",
       "title", "url" >>

\* header = sorted(list(all_keys)): lines 299-301
SortedHeader(data_list) ==
    LET all_keys == UNION {DOMAIN data_list[k] : k \in 1..Len(data_list)}
    IN  SelectSeq(SortedKeyOrder, LAMBDA key : key \in all_keys)

\* csv.writer (excel dialect): a field is quoted when it holds the
\* delimiter, the quote character or a line break, with quotes doubled
RECURSIVE DoubleQuotes(_)
DoubleQuotes(f) ==
    IF Len(f) = 0 THEN <<>>
    ELSE (IF f[1] = Quote THEN <<Quote, Quote>> ELSE <<f[1]>>) \o DoubleQuotes(Tail(f))

CsvField_raw(f) == f

CsvField(f) ==
    IF \E k \in 1..Len(f) : f[k] \in {",", Quote, "\n", "\r"}
    THEN <<Quote>> \o DoubleQuotes(f) \o <<Quote>>
    ELSE f

\* one row: the fields separated by ',' and ended by the line terminator
RECURSIVE CsvJoin(_)
CsvJoin(fields) ==
    IF Len(fields) = 0 THEN <<>>
    ELSE IF Len(fields) = 1 THEN CsvField(fields[1])
    ELSE CsvJoin(SubSeq(fields, 1, Len(fields) - 1)) \o <<",">> \o CsvField(fields[Len(fields)])

CsvRow(fields) == CsvJoin(fields) \o <<"\r", "\n">>

RECURSIVE Concat(_)
Concat(ss) == IF Len(ss) = 0 THEN <<>> ELSE ss[1] \o Concat(Tail(ss))

\* The text writer.writeheader(); writer.writerows(processed_data) produces:
\* lines 302-309
WriteCsv(data_list) ==
    LET header == SortedHeader(data_list)
    IN  CsvRow([j \in 1..Len(header) |-> <<header[j]>>])
          \o Concat([k \in 1..Len(data_list) |->
                CsvRow([j \in 1..Len(header) |-> JsonDumps(Get(data_list[k], header[j]))])])

\* open(filepath, 'r'): '\r\n' and '\r' are read as '\n'
UniversalNewlines(t) ==
    LET marked == [k \in 1..Len(t) |->
                      IF t[k] # "\r" THEN t[k]
                      ELSE IF k < Len(t) /\ t[k + 1] = "\n" THEN "<crlf>" ELSE "\n"]
    IN  SelectSeq(marked, LAMBDA c : c # "<crlf>")

\* The first position >= i of t that holds a character of S, or Len(t) + 1
RECURSIVE FirstAt(_, _, _)
FirstAt(t, i, S) ==
    IF i > Len(t) \/ t[i] \in S THEN i ELSE FirstAt(t, i + 1, S)

\* csv.reader on one record starting at position i: its fields and the
\* position after its line end.  Outside quotes a field runs to the next
\* ',' or line end (a quote opens a quoted part only at the start of a
\* field); inside quotes it runs to the next quote, a doubled quote being
\* one quote character.
RECURSIVE CsvRecord(_, _, _, _, _)
CsvRecord(t, i, in_quotes, field, row) ==
    IF in_quotes
    THEN LET k == FirstAt(t, i, {Quote})
             got == field \o SubSeq(t, i, k - 1)
         IN  IF k > Len(t) THEN [fields |-> Append(row, got), next |-> k]
             ELSE IF k + 1 <= Len(t) /\ t[k + 1] = Quote
                  THEN CsvRecord(t, k + 2, TRUE, Append(got, Quote), row)
                  ELSE CsvRecord(t, k + 1, FALSE, got, row)
    ELSE LET k == FirstAt(t, i, {",", "\n", Quote})
             got == field \o SubSeq(t, i, k - 1)
         IN  IF k > Len(t) THEN [fields |-> Append(row, got), next |-> k]
             ELSE IF t[k] = "," THEN CsvRecord(t, k + 1, FALSE, <<>>, Append(row, got))
             ELSE IF t[k] = "\n" THEN [fields |-> Append(row, got), next |-> k + 1]
             ELSE IF Len(got) = 0 THEN CsvRecord(t, k + 1, TRUE, got, row)
             ELSE CsvRecord(t, k + 1, FALSE, Append(got, Quote), row)

\* csv.reader: the rows of fields of a text; an empty line gives no row
RECURSIVE CsvParse(_, _, _)
CsvParse(t, i, rows) ==
    IF i > Len(t) THEN rows
    ELSE LET rec == CsvRecord(t, i, FALSE, <<>>, <<>>)
         IN  CsvParse(t, rec.next,
                      IF rec.fields = << <<>> >> THEN rows ELSE Append(rows, rec.fields))

\* csv.DictReader on the text of a file: fieldnames and one dict per row
\* (lines 38-41); a field a short row lacks is None, read as the empty text
ReadCsv(t) ==
    LET recs == CsvParse(UniversalNewlines(t), 1, <<>>)
        fieldnames == [j \in 1..Len(recs[1]) |-> recs[1][j][1]]
        At(key) == CHOOSE j \in 1..Len(fieldnames) : fieldnames[j] = key
    IN  [header |-> {fieldnames[j] : j \in 1..Len(fieldnames)},
         rows   |-> [k \in 1..(Len(recs) - 1) |->
                        [key \in {fieldnames[j] : j \in 1..Len(fieldnames)} |->
                            IF At(key) <= Len(recs[k + 1]) THEN recs[k + 1][At(key)] ELSE <<>>]]]

\* The file save_to_csv writes for a non-empty data_list, as DictReader
\* presents it (ReadCsv(WriteCsv(data_list)), computed without the detour
\* through the text; CsvOfIsReadOfWrite states the agreement): the
\* fieldnames are the union of the records' keys and every cell is
\* json.dumps(item.get(key))
CsvOf(data_list) ==
    LET header == UNION {DOMAIN data_list[k] : k \in 1..Len(data_list)}
    IN  [header |-> header,
         rows   |-> [k \in 1..Len(data_list) |->
                        [key \in header |-> JsonDumps(Get(data_list[k], key))]]]

\* The IDs one row contributes: lines 43-48
RowProcessedIds(row) ==
    LET id_json_str == row["id"]
        loaded == JsonLoads(id_json_str)
    IN  IF Len(id_json_str) = 0 \/ ~loaded.ok THEN {}
        ELSE IF loaded.val.kind \in {"str", "num"} /\ IsDigit(TextOf(loaded.val))
             THEN {StrToInt(TextOf(loaded.val))}
             ELSE {}

\* load_processed_ids_from_csvs over a set of CSV files
load_processed_ids_from_csvs(csvs) ==
    UNION {UNION {RowProcessedIds(f.rows[k]) : k \in 1..Len(f.rows)} :
           f \in {g \in csvs : "id" \in g.header}}

-----------------------------------------------------------------------------
(* get_issue: URLs and records *)

LegacyThreshold == 10000000
\* a retry bound one too large
max_retries_off == 5 + 1
max_retries == 5
sub_retries == 3

\* initial_url: lines 128-131
IssueUrl(issue_no) ==
    IF issue_no < LegacyThreshold
    THEN Http \o <<"s://bugs.chromium.org/p/oss-fuzz/issues", "/", "detail?id", "=">>
              \o IntToStr(issue_no)
    ELSE Http \o <<"s://issues.oss-fuzz.com/issues", "/">> \o IntToStr(issue_no)

\* the id taken from the URL, as on the success path, and no title
ErrorRecord_fromUrl(n) ==
    [k \in {"id", "url", "error"} |->
        CASE k = "id"    -> Str(LastPart(IssueUrl(n), "/"))
          [] k = "url"   -> Str(IssueUrl(n))
          [] k = "error" -> Bool(TRUE)]

\* The record returned when the page never loaded: line 148
ErrorRecord(n) ==
    [k \in {"id", "url", "error", "title"} |->
        CASE k = "id"    -> Str(IntToStr(n))
          [] k = "url"   -> Str(IssueUrl(n))
          [] k = "error" -> Bool(TRUE)
          [] k = "title" -> Str(<<"Failed to load page">>)]

\* a throttled iteration that leaves the loop variable alone
AttemptAfterTimeout_free(throttled, a) == IF throttled THEN a ELSE a + 1

\* The loop variable after an iteration that timed out: both the throttle
\* branch and the plain branch `continue` the `for attempt in range(...)`
\* loop, which advances it.
AttemptAfterTimeout(throttled, a) == a + 1

\* The record after extraction of a loaded page: lines 151-159 and the
\* description keys (lines 230-271) as the page yields them.
BuildInfos(current_url, page) ==
    LET base == [k \in {"id", "url", "error"} \cup (IF page.title THEN {"title"} ELSE {}) |->
                    CASE k = "id"    -> Str(LastPart(current_url, "/"))
                      [] k = "url"   -> Str(current_url)
                      [] k = "error" -> Bool(~page.title)
                      [] k = "title" -> Str(<<"a title">>)]
    IN  [k \in DOMAIN base \cup DOMAIN page.desc |->
            IF k \in DOMAIN page.desc THEN page.desc[k] ELSE base[k]]

\* url_keys_to_scrape, in iteration order: line 274
UrlKeys == <<"Regressed", "Fixed", "Crash Revision">>
Prefix(info_key) ==
    CASE info_key = "Regressed" -> "regressed"
      [] info_key = "Fixed" -> "fixed"
      [] info_key = "Crash Revision" -> "crash"

\* f'{prefix}_components', f'{prefix}_revisions', f'{prefix}_buildtime'
DerivedKeys(prefix) ==
    CASE prefix = "regressed" ->
            [components |-> "regressed_components", revisions |-> "regressed_revisions",
             buildtime |-> "regressed_buildtime"]
      [] prefix = "fixed" ->
            [components |-> "fixed_components", revisions |-> "fixed_revisions",
             buildtime |-> "fixed_buildtime"]
      [] prefix = "crash" ->
            [components |-> "crash_components", revisions |-> "crash_revisions",
             buildtime |-> "crash_buildtime"]

DerivedKeySet(prefix) ==
    {DerivedKeys(prefix).components, DerivedKeys(prefix).revisions,
     DerivedKeys(prefix).buildtime}

\* a list let through when its first item starts with 'http'
ShouldScrape_firstItem(infos, info_key) ==
    /\ info_key \in DOMAIN infos
    /\ Len(infos[info_key].items) > 0
    /\ StartsWith(infos[info_key].items[1][1], Http)

\* line 277: sub_url and isinstance(sub_url, str) and sub_url.startswith('http')
ShouldScrape(infos, info_key) ==
    /\ info_key \in DOMAIN infos
    /\ infos[info_key].kind = "str"
    /\ Len(TextOf(infos[info_key])) > 0
    /\ StartsWith(TextOf(infos[info_key]), Http)

\* The next position >= from of url_keys_to_scrape whose key is scraped, or
\* Len(UrlKeys) + 1 when the loop of line 275 is over
NextSub(infos, from) ==
    LET cand == {k \in from..Len(UrlKeys) : ShouldScrape(infos, UrlKeys[k])}
    IN  IF cand = {} THEN Len(UrlKeys) + 1
        ELSE CHOOSE k \in cand : \A j \in cand : k <= j

\* buildtime: line 87
BuildTime(url_to_scrape) ==
    IF \E k \in 1..Len(url_to_scrape) : url_to_scrape[k] = "="
    THEN List(SplitOn(LastPart(url_to_scrape, "="), ":"))
    ELSE Null

\* the derived keys stored without the `if revision_data:` test
ApplyRevisionData_unchecked(infos, prefix, revision_data) ==
    LET dk == DerivedKeys(prefix)
    IN  [k \in DOMAIN infos \cup DerivedKeySet(prefix) |->
            IF k = dk.components THEN revision_data.components
            ELSE IF k = dk.revisions THEN revision_data.revisions
            ELSE IF k = dk.buildtime THEN revision_data.buildtime
            ELSE infos[k]]

\* lines 280-283: revision_data is [none |-> TRUE] for None, else the dict
ApplyRevisionData(infos, prefix, revision_data) ==
    IF revision_data.none THEN infos
    ELSE LET dk == DerivedKeys(prefix)
         IN  Put(Put(Put(infos, dk.components, revision_data.components),
                     dk.revisions, revision_data.revisions),
                 dk.buildtime, revision_data.buildtime)

NoneData == [none |-> TRUE, components |-> Null, revisions |-> Null, buildtime |-> Null]

\* line 125, for the rows the revision table showed
RevisionData(url_to_scrape, rows) ==
    [none |-> FALSE,
     components |-> List([k \in 1..Len(rows) |-> rows[k].component]),
     revisions |-> Lists([k \in 1..Len(rows) |-> rows[k].revision]),
     buildtime |-> BuildTime(url_to_scrape)]

\* the text split at its first colon only
split_revision_range_first(t) ==
    LET at == {k \in 1..Len(t) : t[k] = ":"}
        first == CHOOSE k \in at : \A j \in at : k <= j
    IN  IF at # {} /\ first - 1 > 10 /\ Len(t) - first > 10
        THEN <<SubSeq(t, 1, first - 1), SubSeq(t, first + 1, Len(t))>>
        ELSE <<t>>

\* split_revision_range: lines 53-57
split_revision_range(t) ==
    LET parts == SplitOn(t, ":")
    IN  IF Len(parts) = 2 /\ Len(parts[1]) > 10 /\ Len(parts[2]) > 10
        THEN parts ELSE <<t>>

-----------------------------------------------------------------------------
(* What the remote pages may show *)

IssueIds == {123, 456, 10000000}

\* The new tracker's number of a legacy issue the old tracker redirects to
MigratedId(issue_no) == 40000000 + issue_no

\* driver.current_url once the content marker of the issue page appeared
LandingUrls(issue_no) ==
    {IssueUrl(issue_no)} \cup
    (IF issue_no < LegacyThreshold THEN {IssueUrl(MigratedId(issue_no))} ELSE {})

SubUrlA ==
    Http \o <<"s://oss-fuzz.com/revisions?job", "=", "libfuzzer_asan_x&range", "=",
              "202401010000", ":", "202401020000">>
SubUrlB ==
    Http \o <<"s://oss-fuzz.com/revisions?job", "=", "libfuzzer_asan_x&revision", "=",
              "202401030000">>

EmptyDict == [k \in {} |-> Null]

\* Pages: whether a title element exists, and the URL-bearing description
\* keys as description parsing leaves them
PageSamples ==
    { [title |-> TRUE,  desc |-> EmptyDict],
      [title |-> TRUE,  desc |-> [k \in {"Regressed", "Crash Revision"} |->
                                    IF k = "Regressed" THEN Str(SubUrlA) ELSE Str(SubUrlB)]],
      [title |-> FALSE, desc |-> [k \in {"Fixed", "Crash Revision"} |->
                                    IF k = "Fixed" THEN List(<<SubUrlB, <<"extra detail">>>>)
                                    ELSE Str(<<"unknown">>)]] }

\* Rows of a populated revision table: component text and revision-range text
TableRows ==
    << [component |-> <<"libfoo">>,
        revision  |-> split_revision_range(<<"a", "b", "c", ":", "d", "e", "f">>)] >>

Partitions ==
    {s \in UNION {[1..n -> IssueIds] : n \in 1..MaxIssues} :
        \A j, k \in DOMAIN s : j < k => s[j] > s[k]}

-----------------------------------------------------------------------------
(* run_scraper_instance *)

\* a file left behind by a write that failed
save_to_csv_anyway(fs, data_list, file_index, io_ok) ==
    IF Len(data_list) = 0 THEN fs
    ELSE Put(fs, file_index, CsvOf(data_list))

\* save_to_csv (lines 295-311): the files after the call; io_ok = FALSE is
\* the IOError branch of line 311
save_to_csv(fs, data_list, file_index, io_ok) ==
    IF Len(data_list) = 0 \/ ~io_ok THEN fs
    ELSE Put(fs, file_index, CsvOf(data_list))

LogAfter(data_list, reqs, file_index, io_ok) ==
    IF Len(data_list) = 0 THEN flush_log
    ELSE Append(flush_log, [index |-> file_index, n |-> Len(data_list),
                            reqs |-> reqs, ok |-> io_ok])

\* `if report:` of line 329
Truthy(rep) == DOMAIN rep # {}

\* a flush only once the batch exceeds the interval
ShouldFlush_late(batch, interval) == Len(batch) > interval

\* `len(results_batch) >= save_interval` of line 335
ShouldFlush(batch, interval) == Len(batch) >= interval

\* the exception handler without its flush
ExceptionFlushes_never(batch) == FALSE

\* `if results_batch:` of line 332
ExceptionFlushes(batch) == Len(batch) > 0

NewDriver(session) == [session |-> session, current_url |-> <<"data:,">>]

issue_no == issue_numbers[idx + 1]

staticVars == <<issue_numbers, save_interval, visited, mainVars, libVars>>
loadVars == <<attempt, nav_count, plain_timeouts, throttles, load_result>>
subVars == <<issue_infos, main_issue_url, sub_idx, sub_attempt, original_url,
             extracted, sub_navs, sub_log>>
batchVars == <<results_batch, batch_reqs, file_counter, files, flush_log, idx,
               n_exc, quits, session_events>>

\* The locals of get_issue are gone once it has returned or raised
IssueLocalsCleared ==
    /\ attempt' = 0
    /\ nav_count' = 0
    /\ plain_timeouts' = 0
    /\ throttles' = 0
    /\ load_result' = "none"
    /\ issue_infos' = EmptyDict
    /\ extracted' = EmptyDict
    /\ main_issue_url' = <<>>
    /\ original_url' = <<>>
    /\ sub_idx' = 0
    /\ sub_attempt' = 0
    /\ sub_navs' = 0
    /\ sub_log' = <<>>

\* the flushed records kept in memory
AfterFlush_kept(batch) == batch

\* `results_batch = []` of lines 333 and 337
AfterFlush(batch) == <<>>

\* Lines 329 and 335-339: get_issue returned issue_infos (or the error
\* record of line 148); the worker appends it and flushes a full batch
ReturnReport ==
    /\ pc = "return"
    /\ LET rep == issue_infos
           appended == IF Truthy(rep) THEN Append(results_batch, rep) ELSE results_batch
           reqs == IF Truthy(rep) THEN Append(batch_reqs, issue_no) ELSE batch_reqs
       IN  IF ShouldFlush(appended, save_interval)
           THEN \E io_ok \in BOOLEAN :
                    /\ files' = save_to_csv(files, appended, file_counter, io_ok)
                    /\ flush_log' = LogAfter(appended, reqs, file_counter, io_ok)
                    /\ results_batch' = AfterFlush(appended)
                    /\ batch_reqs' = AfterFlush(reqs)
                    /\ file_counter' = file_counter + 1
           ELSE /\ results_batch' = appended
                /\ batch_reqs' = reqs
                /\ UNCHANGED <<files, flush_log, file_counter>>
    /\ idx' = idx + 1
    /\ pc' = "loop"
    /\ IssueLocalsCleared
    /\ UNCHANGED <<driver, n_exc, quits, session_events, staticVars>>

\* the replacement created before the old session is quit
Restart_newFirst(log) == log \o <<"new", "quit">>

\* Line 333: driver.quit(), then webdriver.Chrome()
Restart(log) == log \o <<"quit", "new">>

\* Lines 330-339: get_issue raised
HandleException ==
    /\ n_exc' = n_exc + 1
    /\ IF ExceptionFlushes(results_batch)
       THEN \E io_ok \in BOOLEAN :
                /\ files' = save_to_csv(files, results_batch, file_counter, io_ok)
                /\ flush_log' = LogAfter(results_batch, batch_reqs, file_counter, io_ok)
                /\ results_batch' = AfterFlush(results_batch)
                /\ batch_reqs' = AfterFlush(batch_reqs)
                /\ file_counter' = file_counter + 1
       ELSE UNCHANGED <<files, flush_log, results_batch, batch_reqs, file_counter>>
    /\ quits' = quits + 1
    /\ driver' = NewDriver(driver.session + 1)
    /\ session_events' = Restart(session_events)
    /\ idx' = idx + 1
    /\ pc' = "loop"
    /\ IssueLocalsCleared
    /\ UNCHANGED staticVars

\* Lines 325-328 and 133-134: the loop takes the next issue and get_issue begins
StartIssue ==
    /\ pc = "loop"
    /\ idx < Len(issue_numbers)
    /\ pc' = "load"
    /\ visited' = Append(visited, issue_no)
    /\ UNCHANGED <<loadVars, subVars, batchVars, driver, issue_numbers, save_interval,
                   mainVars, libVars>>

\* One iteration of the load loop: lines 135-148
LoadAttempt ==
    /\ pc = "load"
    /\ \/ \* the content marker appeared: lines 139-141
          \E url \in LandingUrls(issue_no) :
            /\ nav_count' = nav_count + 1
            /\ driver' = [driver EXCEPT !.current_url = url]
            /\ load_result' = "ok"
            /\ pc' = "extract"
            /\ UNCHANGED <<attempt, plain_timeouts, throttles, subVars, batchVars,
                           staticVars>>
       \/ \* TimeoutException: lines 142-147, and line 148 when the loop is over
          \E throttled \in BOOLEAN :
            LET a2 == AttemptAfterTimeout(throttled, attempt)
            IN  /\ nav_count' = nav_count + 1
                /\ attempt' = a2
                /\ throttles' = IF throttled THEN throttles + 1 ELSE throttles
                /\ plain_timeouts' = IF throttled THEN plain_timeouts ELSE plain_timeouts + 1
                /\ IF a2 >= max_retries
                   THEN /\ load_result' = "failed"
                        /\ issue_infos' = ErrorRecord(issue_no)
                        /\ pc' = "return"
                   ELSE UNCHANGED <<load_result, issue_infos, pc>>
                /\ UNCHANGED <<driver, main_issue_url, sub_idx, sub_attempt, original_url,
                               extracted, sub_navs, sub_log, batchVars, staticVars>>
       \/ \* any other exception leaves get_issue
          HandleException

\* Lines 150-273: the fields are extracted from the loaded page, then the
\* loop of line 275 looks for the first key to scrape
Extract ==
    /\ pc = "extract"
    /\ \/ \E page \in PageSamples :
            LET infos == BuildInfos(driver.current_url, page)
                k == NextSub(infos, 1)
            IN  /\ issue_infos' = infos
                /\ extracted' = infos
                /\ main_issue_url' = driver.current_url
                /\ original_url' = driver.current_url
                /\ sub_idx' = k
                /\ pc' = IF k > Len(UrlKeys) THEN "return" ELSE "sub"
                \* the load loop is over: its locals and counters are dead
                /\ attempt' = 0
                /\ nav_count' = 0
                /\ plain_timeouts' = 0
                /\ throttles' = 0
                /\ UNCHANGED <<load_result, sub_attempt, sub_navs, sub_log, driver,
                               batchVars, staticVars>>
       \/ \* an exception none of the handlers of lines 156-271 catches
          HandleException

\* a finally block that never forces the navigation
RestoreNavs_once(differs, confirmed) == IF differs THEN 1 ELSE 0

\* The driver.get(main_issue_url) calls of lines 287-292: none when the
\* session is at the issue page, one when the wait of line 289 succeeds, two
\* when it times out
RestoreNavs(differs, confirmed) ==
    IF ~differs THEN 0 ELSE IF confirmed THEN 1 ELSE 2

\* Lines 280-293 for the key at sub_idx: scrape_revision_details returned
\* revision_data (or raised, result = "exception") with the session at
\* cur_url; the finally block navigates back to the issue page: the wait
\* of line 289 succeeds or times out (confirmed), and after the forced
\* navigation of line 292, which nothing checks, the session is at the
\* issue page or still where it was (landed); the loop goes on to the next
\* key to scrape (whose original_url is the URL of the session then) or
\* get_issue returns.
AfterScrape(revision_data, result, navs, cur_url) ==
    LET info_key == UrlKeys[sub_idx]
        infos == ApplyRevisionData(issue_infos, Prefix(info_key), revision_data)
        k == NextSub(infos, sub_idx + 1)
        differs == cur_url # main_issue_url
    IN  \/ \E confirmed, landed \in BOOLEAN :
            LET back == RestoreNavs(differs, confirmed)
                at == IF back < 2 \/ landed THEN main_issue_url ELSE cur_url
            IN  /\ ~differs => confirmed
                /\ confirmed => landed
                /\ sub_log' = Append(sub_log, [key |-> info_key, navs |-> navs,
                                               result |-> result, from |-> cur_url,
                                               back |-> back, confirmed |-> confirmed,
                                               at |-> at])
                /\ issue_infos' = infos
                /\ sub_idx' = k
                /\ sub_attempt' = 0
                /\ sub_navs' = 0
                /\ driver' = [driver EXCEPT !.current_url = at]
                /\ original_url' = at
                /\ pc' = IF k > Len(UrlKeys) THEN "return" ELSE "sub"
                /\ UNCHANGED <<loadVars, main_issue_url, extracted, batchVars,
                               staticVars>>
        \/ \* driver.get(main_issue_url) of the finally block raised
           /\ cur_url # main_issue_url
           /\ HandleException

SubUrl == TextOf(issue_infos[UrlKeys[sub_idx]])

\* One iteration of the sub-page load loop: lines 62-72
SubAttempt ==
    /\ pc = "sub"
    /\ \/ \* the session left original_url: lines 65-66
          /\ SubUrl # original_url
          /\ sub_navs' = sub_navs + 1
          /\ driver' = [driver EXCEPT !.current_url = SubUrl]
          /\ pc' = "subpage"
          /\ UNCHANGED <<loadVars, issue_infos, main_issue_url, sub_idx, sub_attempt,
                         original_url, extracted, sub_log, batchVars, staticVars>>
       \/ \* TimeoutException: lines 67-72
          IF sub_attempt + 1 >= sub_retries
          THEN AfterScrape(NoneData, "load_failed", sub_navs + 1, original_url)
          ELSE /\ sub_attempt' = sub_attempt + 1
               /\ sub_navs' = sub_navs + 1
               /\ UNCHANGED <<loadVars, issue_infos, main_issue_url, sub_idx, original_url,
                              extracted, sub_log, driver, pc, batchVars, staticVars>>
       \/ \* another exception leaves scrape_revision_details: line 284
          AfterScrape(NoneData, "exception", sub_navs + 1, SubUrl)

\* Lines 74-125 on the loaded sub-page
SubPage ==
    /\ pc = "subpage"
    /\ \/ \* an error page without a table, or the failure banner: lines 74-85
          AfterScrape(NoneData, "none", sub_navs, driver.current_url)
       \/ \* the revision table never appeared: lines 118-121
          AfterScrape(RevisionData(SubUrl, <<>>), "no_table", sub_navs, driver.current_url)
       \/ AfterScrape(RevisionData(SubUrl, TableRows), "table", sub_navs, driver.current_url)
       \/ AfterScrape(NoneData, "exception", sub_navs, driver.current_url)

\* Lines 340-342: the loop is over
Finish ==
    /\ pc = "loop"
    /\ idx = Len(issue_numbers)
    /\ \E io_ok \in (IF Len(results_batch) > 0 THEN BOOLEAN ELSE {TRUE}) :
            /\ files' = save_to_csv(files, results_batch, file_counter, io_ok)
            /\ flush_log' = LogAfter(results_batch, batch_reqs, file_counter, io_ok)
    /\ quits' = quits + 1
    /\ session_events' = Append(session_events, "quit")
    /\ pc' = "done"
    /\ UNCHANGED <<results_batch, batch_reqs, file_counter, driver, idx, n_exc, loadVars,
                   subVars, staticVars>>

MainIdle ==
    /\ mpc = "idle"
    /\ target_lines = <<>>
    /\ prior_batches = {}
    /\ merged = <<>>
    /\ filter_conditions = EmptyDict
    /\ all_target_ids = {}
    /\ id_list = <<>>
    /\ processed_ids = {}
    /\ ids_to_process = <<>>
    /\ chunks = <<>>

SplitIdle ==
    /\ spc = "idle"
    /\ text = <<>>
    /\ rev_parts = <<>>

NoKey == "<None>"

DescIdle ==
    /\ desc_src = <<>>
    /\ description_lines = <<>>
    /\ line_idx = 0
    /\ current_key = NoKey

CsvIdle ==
    /\ cpc = "idle"
    /\ csv_data = <<>>
    /\ csv_text = <<>>
    /\ read_back = <<>>

PoolIdle ==
    /\ procs = <<>>
    /\ disk = <<>>
    /\ overwritten = {}

ScanIdle ==
    /\ event_kinds = <<>>
    /\ events = <<>>
    /\ examined = <<>>

MetaIdle ==
    /\ field_containers = <<>>
    /\ field_idx = 0

LibIdle == SplitIdle /\ DescIdle /\ CsvIdle /\ PoolIdle /\ ScanIdle /\ MetaIdle

\* Lines 313-324: the worker starts on a non-empty chunk
Init ==
    /\ issue_numbers \in Partitions
    /\ save_interval \in 1..MaxSaveInterval
    /\ idx = 0
    /\ pc = "loop"
    /\ results_batch = <<>>
    /\ batch_reqs = <<>>
    /\ file_counter = 1
    /\ driver = NewDriver(1)
    /\ files = EmptyDict
    /\ attempt = 0
    /\ issue_infos = EmptyDict
    /\ main_issue_url = <<>>
    /\ original_url = <<>>
    /\ sub_idx = 0
    /\ sub_attempt = 0
    /\ nav_count = 0
    /\ plain_timeouts = 0
    /\ throttles = 0
    /\ load_result = "none"
    /\ extracted = EmptyDict
    /\ sub_navs = 0
    /\ sub_log = <<>>
    /\ visited = <<>>
    /\ n_exc = 0
    /\ quits = 0
    /\ session_events = <<"new">>
    /\ flush_log = <<>>
    /\ MainIdle
    /\ LibIdle

Next ==
    \/ StartIssue
    \/ LoadAttempt
    \/ Extract
    \/ SubAttempt
    \/ SubPage
    \/ ReturnReport
    \/ Finish

Spec == Init /\ [][Next]_vars

-----------------------------------------------------------------------------
(* main(): target IDs, re-scrape filter, resolution, partitioning *)

Whitespace == {" ", "\n", "\t", "\r"}

\* str.strip()
RECURSIVE Strip(_)
Strip(s) ==
    IF Len(s) = 0 THEN s
    ELSE IF s[1] \in Whitespace THEN Strip(Tail(s))
    ELSE IF s[Len(s)] \in Whitespace THEN Strip(SubSeq(s, 1, Len(s) - 1))
    ELSE s

\* str.strip('"')
RECURSIVE StripQuotes(_)
StripQuotes(s) ==
    IF Len(s) = 0 THEN s
    ELSE IF s[1] = Quote THEN StripQuotes(Tail(s))
    ELSE IF s[Len(s)] = Quote THEN StripQuotes(SubSeq(s, 1, Len(s) - 1))
    ELSE s

UpperCase == <<"A", "B", "C", "D", "E", "F", "G", "H", "I", "J", "K", "L", "M",
               "N", "O", "P", "Q", "R", "S", "T", "U", "V", "W", "X", "Y", "Z">>
LowerCase == <<"a", "b", "c", "d", "e", "f", "g", "h", "i", "j", "k", "l", "m",
               "n", "o", "p", "q", "r", "s", "t", "u", "v", "w", "x", "y", "z">>

LowerChar(c) ==
    IF \E k \in 1..Len(UpperCase) : UpperCase[k] = c
    THEN LowerCase[CHOOSE k \in 1..Len(UpperCase) : UpperCase[k] = c]
    ELSE c

Lower(s) == [k \in 1..Len(s) |-> LowerChar(s[k])]

\* sub occurs in s
Contains(s, sub) ==
    \E k \in 0..(Len(s) - Len(sub)) : SubSeq(s, k + 1, k + Len(sub)) = sub

\* Series.str.contains(re.escape(condition), case=False) on one text
ContainsIgnoreCase(s, sub) == Contains(Lower(s), Lower(sub))

Range(f) == {f[k] : k \in DOMAIN f}

\* Lines 346-354: the IDs of the digit-only lines
ParseTargetIds(lines) ==
    {StrToInt(Strip(lines[k])) : k \in {j \in 1..Len(lines) : IsDigit(Strip(lines[j]))}}

\* A cell of the DataFrame pandas read from merged_output.csv: missing (NaN)
\* or its text
NaN == [na |-> TRUE, text |-> <<>>]
Cell(t) == [na |-> FALSE, text |-> t]

\* Series.astype(str) on one cell: a missing value becomes the text 'nan'
AstypeStr(cell) == IF cell.na THEN <<"n", "a", "n">> ELSE cell.text

\* Lines 420-430: the mask one condition gives one cell
ConditionMask(condition, cell) ==
    IF condition.type = "bool"
    THEN IF condition.b
         THEN cell.na \/ cell.text = <<"n", "u", "l", "l">>
         ELSE ~cell.na /\ cell.text # <<"n", "u", "l", "l">>
    ELSE ContainsIgnoreCase(AstypeStr(cell), condition.s)

\* Lines 404-409: the filters whose column exists
ValidFilters(conditions, df) == {c \in DOMAIN conditions : c \in df.columns}

\* Lines 416-436: final_mask of one row
FinalMask(conditions, df, row) ==
    \A c \in ValidFilters(conditions, df) : ConditionMask(conditions[c], row[c])

\* pd.to_numeric(errors='coerce') followed by dropna: is the text a number
IsNumeric(t) == IsDigit(t)

\* Lines 393-455: id_list
FilterIdList(df, conditions) ==
    IF ~df.exists \/ DOMAIN conditions = {} \/ ValidFilters(conditions, df) = {}
       \/ "id" \notin df.columns
    THEN <<>>
    ELSE LET Selected(row) ==
                /\ FinalMask(conditions, df, row)
                /\ ~row["id"].na
                /\ IsNumeric(StripQuotes(AstypeStr(row["id"])))
             picked == SelectSeq(df.rows, Selected)
         IN  [k \in 1..Len(picked) |-> StrToInt(StripQuotes(AstypeStr(picked[k]["id"])))]

\* the re-scrape IDs deduplicated against the prior batches as well
ResolveSet_allDeduped(targets, processed, rescrape) == (targets \cup rescrape) \ processed

\* Lines 464-466
ResolveSet(targets, processed, rescrape) == (targets \ processed) \cup rescrape

\* sorted(list(s), reverse=True): line 468
RECURSIVE SortDescending(_)
SortDescending(S) ==
    IF S = {} THEN <<>>
    ELSE <<SetMax(S)>> \o SortDescending(S \ {SetMax(S)})

num_windows == 8

CeilDiv(a, b) == (a + b - 1) \div b

Min(a, b) == IF a < b THEN a ELSE b

\* Lines 488-492: chunks of ids, a non-empty list
Chunks(ids) ==
    LET n == Len(ids)
        windows == IF n < num_windows THEN n ELSE num_windows
        chunk_size == CeilDiv(n, windows)
    IN  [j \in 1..CeilDiv(n, chunk_size) |->
            SubSeq(ids, (j - 1) * chunk_size + 1, Min(j * chunk_size, n))]

-----------------------------------------------------------------------------
(* The inputs of main() *)

LineSamples ==
    { <<"1", "2", "3", "\n">>, <<"4", "5", "6", "\n">>, <<"a", "b", "c", "\n">>,
      <<" ", "7", "8", "9", " ", "\n">>, <<"\n">> }

\* A target file of k distinct numeric lines: 1001, 1002, ...
ManyIds(k) == [j \in 1..k |-> IntToStr(1000 + j) \o <<"\n">>]

TargetFiles ==
    UNION {[1..n -> LineSamples] : n \in 0..MaxLines}
        \cup {ManyIds(k) : k \in (MaxLines + 1)..MaxManyIds}

CsvFile(header, cells) ==
    [header |-> header, rows |-> [k \in 1..Len(cells) |-> [c \in header |-> cells[k]]]]

PriorWith123 == CsvFile({"id", "title"}, << <<Quote, "1", "2", "3", Quote>> >>)

\* Batch files of earlier runs
PriorFileSamples ==
    { PriorWith123,
      CsvFile({"id"}, << <<"4", "5", "6">>, <<"null">>, <<>>, <<Quote, "x", Quote>>,
                         <<Quote, "1", "0", "0", "2">> >>),
      CsvFile({"title"}, << <<Quote, "1", "0", "0", "1", Quote>> >>) }

Fixed == <<Quote, "F", "i", "x", "e", "d", Quote>>
NewStatus == <<Quote, "N", "e", "w", Quote>>

IdCell(n) == Cell(<<Quote>> \o IntToStr(n) \o <<Quote>>)

Row3(id, status, project) ==
    [c \in {"id", "Status", "Project"} |->
        CASE c = "id" -> id [] c = "Status" -> status [] c = "Project" -> project]
Row2(id, status) ==
    [c \in {"id", "Status"} |-> IF c = "id" THEN id ELSE status]

MergedTwoRows ==
    [exists |-> TRUE, columns |-> {"id", "Status"},
     rows |-> << Row2(IdCell(1), NaN), Row2(IdCell(2), Cell(Fixed)) >>]

MergedWide ==
    [exists |-> TRUE, columns |-> {"id", "Status", "Project"},
     rows |-> << Row3(IdCell(123), Cell(Fixed), NaN),
                 Row3(IdCell(1001), NaN, Cell(<<Quote, "z", "l", "i", "b", Quote>>)),
                 Row3(IdCell(789), Cell(NewStatus), Cell(<<Quote, "z", "l", "i", "b", Quote>>)),
                 Row3(NaN, NaN, NaN),
                 Row3(Cell(<<Quote, "x", Quote>>), Cell(Fixed), NaN) >>]

\* merged_output.csv: absent, or the table pandas reads
MergedSamples ==
    { [exists |-> FALSE, columns |-> {}, rows |-> <<>>],
      MergedTwoRows,
      MergedWide,
      [exists |-> TRUE, columns |-> {"Status"},
       rows |-> << [c \in {"Status"} |-> NaN] >>] }

IsMissing == [type |-> "bool", b |-> TRUE, s |-> <<>>]
IsPresent == [type |-> "bool", b |-> FALSE, s |-> <<>>]
Substring(t) == [type |-> "str", b |-> FALSE, s |-> t]

FilterSamples ==
    { EmptyDict,
      [c \in {"Status"} |-> IsMissing],
      [c \in {"Status"} |-> IsPresent],
      [c \in {"Status"} |-> Substring(<<"f", "I", "X">>)],
      [c \in {"Status"} |-> Substring(<<"a", "n">>)],
      [c \in {"Status", "Project"} |->
            IF c = "Status" THEN IsMissing ELSE Substring(<<"Z", "l", "i", "b">>)],
      [c \in {"Fuzzer"} |-> IsMissing],
      [c \in {"Fuzzer", "Status"} |-> IF c = "Fuzzer" THEN IsMissing ELSE IsPresent],
      [c \in {"Fuzzer", "Status"} |->
            IF c = "Fuzzer" THEN IsPresent ELSE Substring(<<"a", "n">>)] }

\* The worker's state other than pc and issue_infos, before it has done anything
WorkerRestIdle ==
    /\ issue_numbers = <<>>
    /\ save_interval = 50
    /\ idx = 0
    /\ results_batch = <<>>
    /\ batch_reqs = <<>>
    /\ file_counter = 1
    /\ driver = NewDriver(0)
    /\ files = EmptyDict
    /\ attempt = 0
    /\ main_issue_url = <<>>
    /\ original_url = <<>>
    /\ sub_idx = 0
    /\ sub_attempt = 0
    /\ nav_count = 0
    /\ plain_timeouts = 0
    /\ throttles = 0
    /\ load_result = "none"
    /\ extracted = EmptyDict
    /\ sub_navs = 0
    /\ sub_log = <<>>
    /\ visited = <<>>
    /\ n_exc = 0
    /\ quits = 0
    /\ session_events = <<>>
    /\ flush_log = <<>>

workerRest == <<issue_numbers, save_interval, idx, results_batch, batch_reqs,
                file_counter, driver, files, attempt, main_issue_url, sub_idx,
                sub_attempt, original_url, nav_count, plain_timeouts, throttles,
                load_result, extracted, sub_navs, sub_log, visited, n_exc, quits,
                session_events,
                flush_log>>

WorkerIdle ==
    /\ pc = "idle"
    /\ issue_infos = EmptyDict
    /\ WorkerRestIdle

InitMain ==
    /\ mpc = "start"
    /\ target_lines \in TargetFiles
    /\ prior_batches \in SUBSET PriorFileSamples
    /\ merged \in MergedSamples
    /\ filter_conditions \in FilterSamples
    /\ all_target_ids = {}
    /\ id_list = <<>>
    /\ processed_ids = {}
    /\ ids_to_process = <<>>
    /\ chunks = <<>>
    /\ WorkerIdle
    /\ LibIdle

inputVars == <<target_lines, prior_batches, merged, filter_conditions>>

\* Lines 346-361
LoadTargets ==
    /\ mpc = "start"
    /\ all_target_ids' = ParseTargetIds(target_lines)
    /\ mpc' = "filter"
    /\ UNCHANGED <<inputVars, id_list, processed_ids, ids_to_process, chunks, workerVars, libVars>>

\* Lines 393-455
ApplyFilter ==
    /\ mpc = "filter"
    /\ id_list' = FilterIdList(merged, filter_conditions)
    /\ mpc' = "resolve"
    /\ UNCHANGED <<inputVars, all_target_ids, processed_ids, ids_to_process, chunks,
                   workerVars, libVars>>

\* Lines 459-480
Resolve ==
    /\ mpc = "resolve"
    /\ processed_ids' = load_processed_ids_from_csvs(prior_batches)
    /\ ids_to_process' =
            SortDescending(ResolveSet(all_target_ids, processed_ids', Range(id_list)))
    /\ mpc' = IF Len(ids_to_process') = 0 THEN "done" ELSE "partition"
    /\ UNCHANGED <<inputVars, all_target_ids, id_list, chunks, workerVars, libVars>>

\* Lines 488-498: one process is started per chunk
Partition ==
    /\ mpc = "partition"
    /\ chunks' = Chunks(ids_to_process)
    /\ mpc' = "started"
    /\ UNCHANGED <<inputVars, all_target_ids, id_list, processed_ids, ids_to_process,
                   workerVars, libVars>>

NextMain ==
    \/ LoadTargets
    \/ ApplyFilter
    \/ Resolve
    \/ Partition

SpecMain == InitMain /\ [][NextMain]_vars

-----------------------------------------------------------------------------
(* get_issue: parsing of the description block, lines 230-271 *)

\* target_keys_desc: line 231 (a list built from a set: its order is arbitrary)
target_keys_desc ==
    { "Project", "Fuzzing Engine", "Fuzz Target", "Job Type",
      "Platform Id", "Crash Type", "Crash Address", "Crash State",
      "Sanitizer", "Regressed", "Reproducer Testcase", "Crash Revision",
      "Download", "Fixed", "Fuzzer", "Fuzzer binary",
      "Fuzz target binary", "Minimized Testcase", "Recommended Security Severity", "Unminimized Testcase",
      "Build log", "Build type" }

\* The characters of a key
KeyText(key) ==
    CASE key = "Project" -> <<"P", "r", "o", "j", "e", "c", "t">>
      [] key = "Fuzzing Engine" -> <<"F", "u", "z", "z", "i", "n", "g", " ", "E", "n", "g", "i", "n", "e">>
      [] key = "Fuzz Target" -> <<"F", "u", "z", "z", " ", "T", "a", "r", "g", "e", "t">>
      [] key = "Job Type" -> <<"J", "o", "b", " ", "T", "y", "p", "e">>
      [] key = "Platform Id" -> <<"P", "l", "a", "t", "f", "o", "r", "m", " ", "I", "d">>
      [] key = "Crash Type" -> <<"C", "r", "a", "s", "h", " ", "T", "y", "p", "e">>
      [] key = "Crash Address" -> <<"C", "r", "a", "s", "h", " ", "A", "d", "d", "r", "e", "s", "s">>
      [] key = "Crash State" -> <<"C", "r", "a", "s", "h", " ", "S", "t", "a", "t", "e">>
      [] key = "Sanitizer" -> <<"S", "a", "n", "i", "t", "i", "z", "e", "r">>
      [] key = "Regressed" -> <<"R", "e", "g", "r", "e", "s", "s", "e", "d">>
      [] key = "Reproducer Testcase" -> <<"R", "e", "p", "r", "o", "d", "u", "c", "e", "r", " ", "T", "e", "s", "t", "c", "a", "s", "e">>
      [] key = "Crash Revision" -> <<"C", "r", "a", "s", "h", " ", "R", "e", "v", "i", "s", "i", "o", "n">>
      [] key = "Download" -> <<"D", "o", "w", "n", "l", "o", "a", "d">>
      [] key = "Fixed" -> <<"F", "i", "x", "e", "d">>
      [] key = "Fuzzer" -> <<"F", "u", "z", "z", "e", "r">>
      [] key = "Fuzzer binary" -> <<"F", "u", "z", "z", "e", "r", " ", "b", "i", "n", "a", "r", "y">>
      [] key = "Fuzz target binary" -> <<"F", "u", "z", "z", " ", "t", "a", "r", "g", "e", "t", " ", "b", "i", "n", "a", "r", "y">>
      [] key = "Minimized Testcase" -> <<"M", "i", "n", "i", "m", "i", "z", "e", "d", " ", "T", "e", "s", "t", "c", "a", "s", "e">>
      [] key = "Recommended Security Severity" -> <<"R", "e", "c", "o", "m", "m", "e", "n", "d", "e", "d", " ", "S", "e", "c", "u", "r", "i", "t", "y", " ", "S", "e", "v", "e", "r", "i", "t", "y">>
      [] key = "Unminimized Testcase" -> <<"U", "n", "m", "i", "n", "i", "m", "i", "z", "e", "d", " ", "T", "e", "s", "t", "c", "a", "s", "e">>
      [] key = "Build log" -> <<"B", "u", "i", "l", "d", " ", "l", "o", "g">>
      [] key = "Build type" -> <<"B", "u", "i", "l", "d", " ", "t", "y", "p", "e">>

\* url_keys_with_possible_extra_text: line 255
url_keys_with_possible_extra_text ==
    {"Regressed", "Fixed", "Crash Revision", "Build log", "Reproducer Testcase",
     "Minimized Testcase"}

\* str.replace(pat, ''): every non-overlapping occurrence removed, left to right
RECURSIVE RemoveAll(_, _)
RemoveAll(s, pat) ==
    IF Len(s) < Len(pat) THEN s
    ELSE IF SubSeq(s, 1, Len(pat)) = pat
         THEN RemoveAll(SubSeq(s, Len(pat) + 1, Len(s)), pat)
         ELSE <<s[1]>> \o RemoveAll(Tail(s), pat)

\* line_stripped: line 236
LineStripped(line) ==
    RemoveAll(RemoveAll(Strip(line), <<"<", "b", ">">>), <<"<", "/", "b", ">">>)

\* clean_line_start: line 240
CleanLineStart(line_stripped) == RemoveAll(line_stripped, <<"*", "*">>)

\* the text after a leading run of whitespace (\s*)
RECURSIVE SkipSpace(_)
SkipSpace(s) ==
    IF Len(s) > 0 /\ s[1] \in Whitespace THEN SkipSpace(Tail(s)) ELSE s

StartsWithColon(s) == Len(s) > 0 /\ s[1] = ":"

\* a label recognised by its leading characters alone
PatternMatches_prefix(key, clean_line_start) ==
    /\ Len(clean_line_start) >= Len(KeyText(key))
    /\ Lower(SubSeq(clean_line_start, 1, Len(KeyText(key)))) = Lower(KeyText(key))
    /\ \E j \in 1..Len(clean_line_start) : clean_line_start[j] = ":"

\* pattern.match(clean_line_start) for
\* ^{re.escape(key)}(?:\s*\(.*\))?\s*:  with re.IGNORECASE: lines 246-248
PatternMatches(key, clean_line_start) ==
    LET k == KeyText(key)
        n == Len(clean_line_start)
    IN  /\ n >= Len(k)
        /\ Lower(SubSeq(clean_line_start, 1, Len(k))) = Lower(k)
        /\ LET r1 == SkipSpace(SubSeq(clean_line_start, Len(k) + 1, n))
           IN  \/ StartsWithColon(r1)
               \/ /\ Len(r1) > 0
                  /\ r1[1] = "("
                  /\ \E j \in 2..Len(r1) :
                        /\ r1[j] = ")"
                        /\ StartsWithColon(SkipSpace(SubSeq(r1, j + 1, Len(r1))))

\* The keys whose pattern matches the line; the loop of line 239 takes the
\* first of them in the order of target_keys_desc
MatchingKeys(line_stripped) ==
    {key \in target_keys_desc : PatternMatches(key, CleanLineStart(line_stripped))}

\* s.split(sep, 1)[1] for a text that contains sep
AfterFirst(s, sep) ==
    LET at == {k \in 1..Len(s) : s[k] = sep}
        first == CHOOSE k \in at : \A j \in at : k <= j
    IN  SubSeq(s, first + 1, Len(s))

\* s.split(' ')[0]
FirstToken(s) ==
    LET at == {k \in 1..Len(s) : s[k] = " "}
    IN  IF at = {} THEN s
        ELSE SubSeq(s, 1, (CHOOSE k \in at : \A j \in at : k <= j) - 1)

\* The value a label line assigns: lines 252-259
LabelValue(key, line_stripped) ==
    LET value == Strip(AfterFirst(line_stripped, ":"))
    IN  IF key \in url_keys_with_possible_extra_text /\ Contains(value, Http)
        THEN FirstToken(value) ELSE value

\* a label line that leaves a value already in the record alone
StoreLabel_keep(infos, key, value) ==
    IF key \in DOMAIN infos THEN infos ELSE Put(infos, key, Str(value))

\* `issue_infos[key] = ...` of lines 256-258
StoreLabel(infos, key, value) == Put(infos, key, Str(value))

\* no line taken as a sentinel
IsNoise_never(line_stripped) == FALSE

\* line 264
IsNoise(line_stripped) ==
    \/ Contains(line_stripped, <<"I", "s", "s", "u", "e", " ", "f", "i", "l", "e", "d", " ", "a", "u", "t", "o", "m", "a", "t", "i", "c", "a", "l", "l", "y">>)
    \/ Contains(line_stripped, <<"S", "e", "e", " ">>)

\* a continuation that replaces the value by the line
Continuation_replace(infos, key, line_stripped) ==
    Put(infos, key, Str(line_stripped))

\* A continuation line under the cursor: lines 265-269
Continuation(infos, key, line_stripped) ==
    LET existing_value == Get(infos, key)
    IN  IF existing_value.kind = "str"
        THEN IF Len(TextOf(existing_value)) = 0
             THEN Put(infos, key, List(<<line_stripped>>))
             ELSE Put(infos, key, List(<<TextOf(existing_value), line_stripped>>))
        ELSE IF existing_value.kind = "list"
             THEN Put(infos, key, [kind |-> "list",
                                   items |-> Append(existing_value.items, <<line_stripped>>)])
             ELSE infos

-----------------------------------------------------------------------------
(* split_revision_range on its own *)

\* A stretch of n characters of the k-th colon-free part of a text
Stretch(k, n) == [j \in 1..n |-> <<"a", "b", "c", "d", "e">>[((k - 1) % 5) + 1]]

\* The texts with the given lengths between their colons
RECURSIVE JoinColon(_)
JoinColon(lens) ==
    IF Len(lens) = 1 THEN Stretch(1, lens[1])
    ELSE JoinColon(SubSeq(lens, 1, Len(lens) - 1)) \o <<":">> \o Stretch(Len(lens), lens[Len(lens)])

\* Revision-range cell texts: up to MaxColons colons, stretches of 0..MaxSide
RangeTexts ==
    {JoinColon(lens) : lens \in UNION {[1..n -> 0..MaxSide] : n \in 1..(MaxColons + 1)}}

InitSplit ==
    /\ spc = "call"
    /\ text \in RangeTexts
    /\ rev_parts = <<>>
    /\ WorkerIdle
    /\ MainIdle
    /\ DescIdle
    /\ CsvIdle
    /\ PoolIdle
    /\ ScanIdle
    /\ MetaIdle

\* Lines 53-57
SplitCall ==
    /\ spc = "call"
    /\ rev_parts' = split_revision_range(text)
    /\ spc' = "returned"
    /\ UNCHANGED <<text, workerVars, mainVars, descVars, csvVars, poolVars, scanVars,
                   metaVars>>

NextSplit == SplitCall

SpecSplit == InitSplit /\ [][NextSplit]_vars

-----------------------------------------------------------------------------
(* Description parsing on its own *)

\* How a line of the description is composed: a label line (key, optional
\* annotation, optional <b> markup, optional lower-casing, value), a line
\* whose label is followed by a further word character ("labelx"), or free
\* text (a continuation line, a blank line, a noise sentinel)
LabelLine(key, ann, val) ==
    [kind |-> "label", key |-> key, ann |-> ann, lower |-> FALSE, bold |-> FALSE, val |-> val]
LowerLabelLine(key, ann, val) ==
    [kind |-> "label", key |-> key, ann |-> ann, lower |-> TRUE, bold |-> FALSE, val |-> val]
BoldLabelLine(key, val) ==
    [kind |-> "label", key |-> key, ann |-> <<>>, lower |-> FALSE, bold |-> TRUE, val |-> val]
LabelXLine(key, val) ==
    [kind |-> "labelx", key |-> key, ann |-> <<>>, lower |-> FALSE, bold |-> FALSE, val |-> val]
TextLine(kind, val) ==
    [kind |-> kind, key |-> NoKey, ann |-> <<>>, lower |-> FALSE, bold |-> FALSE, val |-> val]

\* The text of a line as the page shows it
Render(d) ==
    LET k == IF d.lower THEN Lower(KeyText(d.key)) ELSE KeyText(d.key)
        v == IF Len(d.val) = 0 THEN <<>> ELSE <<" ">> \o d.val
    IN  CASE d.kind = "label" ->
                (IF d.bold THEN <<"<", "b", ">">> \o k \o <<"<", "/", "b", ">">> ELSE k)
                    \o d.ann \o <<":">> \o v
          [] d.kind = "labelx" -> k \o <<"x", ":">> \o v
          [] OTHER -> d.val

SizeAnnotation == <<" ", "(", "1", ".", "2", " ", "K", "b", ")">>
ColonAnnotation == <<" ", "(", "s", "i", "z", "e", ":", " ", "1", ".", "2", " ", "K", "b", ")">>
SomeValue == <<"v", "a", "l", "u", "e">>
HeapOverflow == <<"H", "e", "a", "p", "-", "o", "v", "e", "r", "f", "l", "o", "w">>
ExtraDetail == <<"e", "x", "t", "r", "a", " ", "d", "e", "t", "a", "i", "l">>
UrlAndText == <<"h", "t", "t", "p", ":", "/", "/", "u", "/", "r", "e", "v", "i", "s", "i", "o", "n", "s", "?", "r", "=", "1", " ", "e", "x", "t", "r", "a">>

\* One-line descriptions: every key of the vocabulary in every form
SingleLineSamples ==
    UNION {{ <<LabelLine(key, <<>>, SomeValue)>>,
             <<LabelLine(key, SizeAnnotation, SomeValue)>>,
             <<LowerLabelLine(key, SizeAnnotation, SomeValue)>>,
             <<LabelLine(key, ColonAnnotation, SomeValue)>>,
             <<LabelXLine(key, SomeValue)>> } : key \in target_keys_desc}

\* The lines longer descriptions are built from
DescLineSamples ==
    { LabelLine("Crash Type", <<>>, HeapOverflow),
      LabelLine("Crash Type", <<>>, <<>>),
      LabelLine("Fixed", <<>>, UrlAndText),
      BoldLabelLine("Sanitizer", SomeValue),
      TextLine("cont", ExtraDetail),
      TextLine("cont", <<" ", " ", "#", "0", " ", "f", " ", " ">>),
      TextLine("blank", <<" ">>),
      TextLine("noise", <<"S", "e", "e", " ", "x">>),
      TextLine("noise", <<"I", "s", "s", "u", "e", " ", "f", "i", "l", "e", "d", " ", "a", "u", "t", "o", "m", "a", "t", "i", "c", "a", "l", "l", "y", ".">>) }

DescSamples ==
    SingleLineSamples \cup UNION {[1..n -> DescLineSamples] : n \in 0..MaxDescLines}

FixedTime == <<"2024-01-03 10:00">>

\* issue_infos when description parsing begins (line 230): the mandatory
\* keys and the title, with or without a Fixed the timeline scan has set
BaseRecords ==
    LET base == BuildInfos(IssueUrl(LegacyThreshold), [title |-> TRUE, desc |-> EmptyDict])
    IN  {base, Put(Put(base, "Fixed", Str(SubUrlB)), "fixed_time", Str(FixedTime))}

InitDesc ==
    /\ pc = "desc"
    /\ issue_infos \in BaseRecords
    /\ desc_src \in DescSamples
    /\ description_lines = [k \in 1..Len(desc_src) |-> Render(desc_src[k])]
    /\ line_idx = 0
    /\ current_key = NoKey
    /\ WorkerRestIdle
    /\ MainIdle
    /\ SplitIdle
    /\ CsvIdle
    /\ PoolIdle
    /\ ScanIdle
    /\ MetaIdle

descFrame == <<desc_src, description_lines, workerRest, mainVars, splitVars, csvVars,
               poolVars, scanVars, metaVars>>

\* One iteration of the loop of line 235
DescLine ==
    /\ pc = "desc"
    /\ line_idx < Len(description_lines)
    /\ line_idx' = line_idx + 1
    /\ LET line_stripped == LineStripped(description_lines[line_idx + 1])
           matching == MatchingKeys(line_stripped)
       IN  IF Len(line_stripped) = 0
           THEN current_key' = NoKey /\ UNCHANGED issue_infos
           ELSE IF matching # {}
           THEN \E key \in matching :
                    /\ current_key' = key
                    /\ issue_infos' = StoreLabel(issue_infos, key, LabelValue(key, line_stripped))
           ELSE IF current_key = NoKey
           THEN UNCHANGED <<current_key, issue_infos>>
           ELSE IF IsNoise(line_stripped)
           THEN current_key' = NoKey /\ UNCHANGED issue_infos
           ELSE /\ issue_infos' = Continuation(issue_infos, current_key, line_stripped)
                /\ UNCHANGED current_key
    /\ UNCHANGED <<pc, descFrame>>

\* The loop is over: line 273
DescEnd ==
    /\ pc = "desc"
    /\ line_idx = Len(description_lines)
    /\ pc' = "parsed"
    /\ UNCHANGED <<issue_infos, line_idx, current_key, descFrame>>

\* <b-issue-description> never appeared: lines 270-271
DescAbsent ==
    /\ pc = "desc"
    /\ line_idx = 0
    /\ pc' = "skipped"
    /\ UNCHANGED <<issue_infos, line_idx, current_key, descFrame>>

NextDesc ==
    \/ DescLine
    \/ DescEnd
    \/ DescAbsent

SpecDesc == InitDesc /\ [][NextDesc]_vars

-----------------------------------------------------------------------------
(* save_to_csv and the reading of a batch file, on their own *)

Rec3(id, k2, v2, k3, v3) ==
    [k \in {"id", k2, k3} |-> IF k = "id" THEN Str(id) ELSE IF k = k2 THEN v2 ELSE v3]

\* Records whose values are null, strings (with quotes, commas, backslashes
\* and line breaks) and lists of strings
RecordSamples ==
    { Rec3(<<"1">>, "title", Str(<<"s", "a", "y", " ", "\"", "h", "i", "\"", ",", " ", "o", "k">>), "Fixed", Null),
      Rec3(<<"5">>, "title", Str(<<"p", "l", "a", "i", "n">>), "Fixed", Str(SubUrlB)),
      Rec3(<<"2">>, "Crash State", List(<<<<"a">>, <<"b", ",", "c">>>>), "Crash State",
           List(<<<<"a">>, <<"b", ",", "c">>>>)),
      Rec3(<<"3">>, "title", Str(<<>>), "Crash State", List(<<>>)),
      Rec3(<<"4">>, "title", Str(<<"b", "a", "c", "k", "\\", "s", "l", "a", "s", "h", "\n", "x">>), "title",
           Str(<<"b", "a", "c", "k", "\\", "s", "l", "a", "s", "h", "\n", "x">>)) }

InitCsv ==
    /\ cpc = "save"
    /\ csv_data \in UNION {[1..n -> RecordSamples] : n \in 1..MaxBatch}
    /\ csv_text = <<>>
    /\ read_back = <<>>
    /\ WorkerIdle
    /\ MainIdle
    /\ SplitIdle
    /\ DescIdle
    /\ PoolIdle
    /\ ScanIdle
    /\ MetaIdle

csvFrame == <<workerVars, mainVars, splitVars, descVars, poolVars, scanVars, metaVars>>

\* save_to_csv on a non-empty csv_data: lines 295-311
SaveBatch ==
    /\ cpc = "save"
    /\ \E io_ok \in BOOLEAN :
            /\ csv_text' = IF io_ok THEN WriteCsv(csv_data) ELSE <<>>
            /\ cpc' = IF io_ok THEN "saved" ELSE "lost"
    /\ UNCHANGED <<csv_data, read_back, csvFrame>>

\* One row of a DictReader with every cell decoded: [ok, rec]
DecodeRow(row) ==
    [ok  |-> \A key \in DOMAIN row : JsonLoads(row[key]).ok,
     rec |-> [key \in DOMAIN row |-> JsonLoads(row[key]).val]]

\* The file is read back as lines 38-45 read it, every cell through json.loads
ReadBack ==
    /\ cpc = "saved"
    /\ LET f == ReadCsv(csv_text)
       IN  read_back' = [k \in 1..Len(f.rows) |-> DecodeRow(f.rows[k])]
    /\ cpc' = "loaded"
    /\ UNCHANGED <<csv_data, csv_text, csvFrame>>

NextCsv ==
    \/ SaveBatch
    \/ ReadBack

SpecCsv == InitCsv /\ [][NextCsv]_vars

-----------------------------------------------------------------------------
(* main() from line 488 on: the worker processes run side by side *)

\* `for i, chunk in enumerate(chunks)`: the process of chunks[w] is started
\* with window_index w - 1
WindowIndex(w) == w - 1

\* every process given the same directory
OutputDir_shared(window_index) == 0

\* output_dir of line 322: the subdirectory window_<window_index>
OutputDir(window_index) == window_index

\* IDs n, n-1, .., 1, as line 468 sorts them
DescendingIds(n) == [k \in 1..n |-> n + 1 - k]

\* The arguments of a process and the locals of its loop (lines 313-324);
\* paths lists the files it has opened for writing, handled the issues it
\* has called get_issue with
NewProc(chunk, window_index, interval) ==
    [issue_numbers |-> chunk, window_index |-> window_index,
     save_interval |-> interval, i |-> 0, results_batch |-> <<>>,
     file_counter |-> 1, finished |-> FALSE, paths |-> <<>>, handled |-> <<>>]

\* Lines 488-498 have run: one process per chunk. save_interval is left at
\* the default of line 313 by main(); the model draws it from
\* 1..MaxSaveInterval so that interval flushes happen in short partitions.
InitPool ==
    /\ mpc = "started"
    /\ \E n \in {1, 2} \cup (num_windows + 1)..MaxPoolIds :
            ids_to_process = DescendingIds(n)
    /\ chunks = Chunks(ids_to_process)
    /\ \E interval \in 1..MaxSaveInterval :
            procs = [w \in 1..Len(chunks) |->
                        NewProc(chunks[w], WindowIndex(w), interval)]
    /\ disk = <<>>
    /\ overwritten = {}
    /\ target_lines = <<>>
    /\ prior_batches = {}
    /\ merged = <<>>
    /\ filter_conditions = EmptyDict
    /\ all_target_ids = {}
    /\ id_list = <<>>
    /\ processed_ids = {}
    /\ WorkerIdle
    /\ SplitIdle
    /\ DescIdle
    /\ CsvIdle
    /\ ScanIdle
    /\ MetaIdle

poolFrame == <<target_lines, prior_batches, merged, filter_conditions, all_target_ids,
               id_list, processed_ids, ids_to_process, chunks, workerVars, splitVars,
               descVars, csvVars, scanVars, metaVars>>

\* save_to_csv(results_batch, output_dir, file_counter) by process w: the
\* file <output_dir>/<file_counter>.csv is opened for writing (line 308)
PoolSave(w, batch) ==
    LET path == <<OutputDir(procs[w].window_index), procs[w].file_counter>>
    IN  /\ disk' = [q \in DOMAIN disk \cup {path} |->
                        IF q = path THEN [by |-> w, ids |-> batch] ELSE disk[q]]
        /\ overwritten' = IF path \in DOMAIN disk THEN overwritten \cup {path}
                          ELSE overwritten

PathOf(w) == <<OutputDir(procs[w].window_index), procs[w].file_counter>>

\* One iteration of the loop of process w: lines 325-339
PoolVisit(w) ==
    /\ mpc = "started"
    /\ ~procs[w].finished
    /\ procs[w].i < Len(procs[w].issue_numbers)
    /\ LET p == procs[w]
           n == p.issue_numbers[p.i + 1]
           q == [p EXCEPT !.i = p.i + 1, !.handled = Append(p.handled, n)]
       IN  \/ \* get_issue returned a record: lines 328-329, 335-336
              LET appended == Append(p.results_batch, n)
              IN  IF ShouldFlush(appended, p.save_interval)
                  THEN /\ PoolSave(w, appended)
                       /\ procs' = [procs EXCEPT ![w] =
                                        [q EXCEPT !.results_batch = <<>>,
                                                  !.file_counter = p.file_counter + 1,
                                                  !.paths = Append(p.paths, PathOf(w))]]
                  ELSE /\ procs' = [procs EXCEPT ![w] =
                                        [q EXCEPT !.results_batch = appended]]
                       /\ UNCHANGED <<disk, overwritten>>
           \/ \* get_issue raised: lines 330-334
              IF ExceptionFlushes(p.results_batch)
              THEN /\ PoolSave(w, p.results_batch)
                   /\ procs' = [procs EXCEPT ![w] =
                                    [q EXCEPT !.results_batch = <<>>,
                                              !.file_counter = p.file_counter + 1,
                                              !.paths = Append(p.paths, PathOf(w))]]
              ELSE /\ procs' = [procs EXCEPT ![w] = q]
                   /\ UNCHANGED <<disk, overwritten>>
    /\ UNCHANGED <<mpc, poolFrame>>

\* Lines 340-342 of process w
PoolFinish(w) ==
    /\ mpc = "started"
    /\ ~procs[w].finished
    /\ procs[w].i = Len(procs[w].issue_numbers)
    /\ IF Len(procs[w].results_batch) > 0
       THEN /\ PoolSave(w, procs[w].results_batch)
            /\ procs' = [procs EXCEPT ![w].finished = TRUE,
                                      ![w].paths = Append(procs[w].paths, PathOf(w))]
       ELSE /\ procs' = [procs EXCEPT ![w].finished = TRUE]
            /\ UNCHANGED <<disk, overwritten>>
    /\ UNCHANGED <<mpc, poolFrame>>

\* Lines 499-500: every join has returned
PoolJoin ==
    /\ mpc = "started"
    /\ \A w \in DOMAIN procs : procs[w].finished
    /\ mpc' = "joined"
    /\ UNCHANGED <<poolVars, poolFrame>>

NextPool ==
    \/ \E w \in DOMAIN procs : PoolVisit(w)
    \/ \E w \in DOMAIN procs : PoolFinish(w)
    \/ PoolJoin

SpecPool == InitPool /\ [][NextPool]_vars

-----------------------------------------------------------------------------
(* get_issue: the scan of the timeline for the fix, lines 198-228 *)

FixedHttp == <<"Fixed:", " ">> \o Http
Revisions == <<"/revisions">>
VerifiedPhrase == <<"is verified as fixed in">>

\* The URLs and the time of the event at position k of the page
RevisionsUrl(k) == Http \o <<"s://oss-fuzz.com", "/revisions", "?range=">> \o IntToStr(k)
AnchorUrl(k) == RevisionsUrl(k) \o <<"&via=anchor">>
CommitUrl(k) == Http \o <<"s://example.org/commit/">> \o IntToStr(k)
DateTimeAttr(k) ==
    <<"2024-01-0">> \o IntToStr(k) \o <<"T", "10", ":", "0">> \o IntToStr(k)
        \o <<":", "30.000", "Z">>

FixedLineOf(url) == <<" ", " ">> \o FixedHttp \o SubSeq(url, Len(Http) + 1, Len(url))
PhraseLine(k) == <<"ClusterFuzz testcase ">> \o IntToStr(k) \o <<" ">> \o VerifiedPhrase
                    \o <<" ">> \o RevisionsUrl(k) \o <<".">>

EventKinds ==
    {"fixed_line", "fixed_line_extra", "fixed_no_time", "fixed_empty_time", "fixed_other",
     "phrase", "phrase_no_anchor", "both", "plain", "no_section"}

\* An event: whether it has a comment section, the text of the section, the
\* href of its a[href*="/revisions"] (none or one), the datetime attribute
\* of its time element (none or one)
EventAt(kind, k) ==
    [section |-> kind # "no_section",
     text |->
        CASE kind = "fixed_line" ->
                <<"Detailed report", "\n">> \o FixedLineOf(RevisionsUrl(k))
          [] kind = "fixed_line_extra" ->
                FixedLineOf(RevisionsUrl(k)) \o <<" ", "(", "d", "e", "t", "a", "i", "l", "s", ")">>
          [] kind \in {"fixed_no_time", "fixed_empty_time"} ->
                FixedLineOf(RevisionsUrl(k)) \o <<" ", "\n", "thanks">>
          [] kind = "fixed_other" -> FixedLineOf(CommitUrl(k))
          [] kind = "phrase" -> PhraseLine(k)
          [] kind = "phrase_no_anchor" -> PhraseLine(k)
          [] kind = "both" ->
                PhraseLine(k) \o <<"\n">> \o FixedLineOf(RevisionsUrl(k))
          [] OTHER -> <<"thanks">>,
     anchor |-> IF kind \in {"phrase", "both"} THEN <<AnchorUrl(k)>> ELSE <<>>,
     time |-> CASE kind = "fixed_no_time" -> <<>>
                [] kind = "fixed_empty_time" -> << <<>> >>
                [] OTHER -> <<DateTimeAttr(k)>>]

\* datetime.fromisoformat(s.replace('Z', '+00:00')).strftime("%Y-%m-%d %H:%M")
\* on the datetime attribute of a time element: line 224
FormatMinute(utc_time_str) ==
    LET t == CHOOSE k \in 1..Len(utc_time_str) : utc_time_str[k] = "T"
        colons == {k \in (t + 1)..Len(utc_time_str) : utc_time_str[k] = ":"}
        second == SetMax(colons)
    IN  SubSeq(utc_time_str, 1, t - 1) \o <<" ">> \o SubSeq(utc_time_str, t + 1, second - 1)

\* the loop taking the events in page order
ScanPosition_oldestFirst(n, done) == done + 1

\* `for event in reversed(events)`: the position taken after `done` events
ScanPosition(n, done) == n - done

\* Lines 203-219 on one event: whether fix information was found and the
\* value assigned to issue_infos['Fixed']
FixInfo(event) ==
    LET lines == SplitOn(event.text, "\n")
        fixed == {j \in 1..Len(lines) :
                    /\ StartsWith(Strip(lines[j]), FixedHttp)
                    /\ Contains(Strip(lines[j]), Revisions)}
        first == CHOOSE j \in fixed : \A i \in fixed : j <= i
    IN  IF ~event.section THEN [found |-> FALSE, value |-> <<>>]
        ELSE IF fixed # {}
        THEN [found |-> TRUE, value |-> AfterFirst(Strip(lines[first]), " ")]
        ELSE IF Contains(event.text, VerifiedPhrase) /\ Len(event.anchor) > 0
        THEN [found |-> TRUE, value |-> event.anchor[1]]
        ELSE [found |-> FALSE, value |-> <<>>]

\* Lines 221-226: fixed_time from the time element of the matching event
WithFixedTime(infos, event) ==
    IF Len(event.time) > 0 /\ Len(event.time[1]) > 0
    THEN Put(infos, "fixed_time", Str(FormatMinute(event.time[1])))
    ELSE infos

\* issue_infos when the scan begins: id, url, error and title
ScanBase == BuildInfos(IssueUrl(LegacyThreshold), [title |-> TRUE, desc |-> EmptyDict])

InitScan ==
    /\ pc = "scan"
    /\ issue_infos = ScanBase
    /\ event_kinds \in UNION {[1..n -> EventKinds] : n \in 0..MaxEvents}
    /\ events = [k \in 1..Len(event_kinds) |-> EventAt(event_kinds[k], k)]
    /\ examined = <<>>
    /\ WorkerRestIdle
    /\ MainIdle
    /\ SplitIdle
    /\ DescIdle
    /\ CsvIdle
    /\ PoolIdle
    /\ MetaIdle

scanFrame == <<event_kinds, events, workerRest, mainVars, splitVars, descVars, csvVars,
               poolVars, metaVars>>

\* One iteration of the loop of line 201
ScanEvent ==
    /\ pc = "scan"
    /\ Len(examined) < Len(events)
    /\ LET k == ScanPosition(Len(events), Len(examined))
           event == events[k]
           info == FixInfo(event)
       IN  /\ examined' = Append(examined, k)
           /\ IF info.found
              THEN /\ issue_infos' =
                        WithFixedTime(Put(issue_infos, "Fixed", Str(info.value)), event)
                   /\ pc' = "scanned"
              ELSE UNCHANGED <<issue_infos, pc>>
    /\ UNCHANGED scanFrame

\* The loop ran out of events
ScanEnd ==
    /\ pc = "scan"
    /\ Len(examined) = Len(events)
    /\ pc' = "scanned"
    /\ UNCHANGED <<issue_infos, examined, scanFrame>>

\* <issue-event-list> never appeared: line 228
ScanAbsent ==
    /\ pc = "scan"
    /\ examined = <<>>
    /\ pc' = "skipped"
    /\ UNCHANGED <<issue_infos, examined, scanFrame>>

NextScan ==
    \/ ScanEvent
    \/ ScanEnd
    \/ ScanAbsent

SpecScan == InitScan /\ [][NextScan]_vars

-----------------------------------------------------------------------------
(* get_issue: the metadata block, lines 171-196 *)

target_keys_meta ==
    {"Reporter", "Type", "Priority", "Severity", "Status", "Assignee", "Verifier",
     "Collaborators", "CC", "Project", "Disclosure", "Reported", "Code Changes",
     "Pending Code Changes", "Staffing", "Found In", "Targeted To", "Verified In"}
user_data_keys == {"Reporter", "Assignee", "Verifier", "Collaborators", "CC"}
date_keys == {"Disclosure", "Reported"}

Placeholder == <<"-", "-">>

\* line 181
OutputKey(label) == IF label = "Reported" THEN "Metadata_Reported_Date" ELSE label

\* line 183: the stripped hovercard texts that are neither empty nor '--'
RECURSIVE UserValues(_)
UserValues(cards) ==
    IF Len(cards) = 0 THEN <<>>
    ELSE LET v == Strip(cards[1])
         IN  (IF Len(v) > 0 /\ v # Placeholder THEN <<v>> ELSE <<>>)
                \o UserValues(Tail(cards))

\* every user-valued field collapsed alike
StoreUser_collapse(label, values) ==
    IF Len(values) = 0 THEN Null
    ELSE IF Len(values) = 1 THEN Str(values[1]) ELSE List(values)

\* lines 184-186: the value stored for a user-valued field
StoreUser(label, values) ==
    IF Len(values) = 0 THEN Null
    ELSE IF label \in {"CC", "Collaborators"} THEN List(values)
    ELSE IF Len(values) = 1 THEN Str(values[1]) ELSE List(values)

Pad2(t) == IF Len(t) = 1 THEN <<"0">> \o t ELSE t

\* datetime.strptime(value, "%Y-%m-%d").strftime("%Y-%m-%d"), or the value
\* itself on ValueError: lines 191-192
DateOrRaw(value) ==
    LET p == SplitOn(value, "-")
    IN  IF /\ Len(p) = 3
           /\ IsDigit(p[1]) /\ Len(p[1]) = 4
           /\ IsDigit(p[2]) /\ Len(p[2]) <= 2 /\ StrToInt(p[2]) \in 1..12
           /\ IsDigit(p[3]) /\ Len(p[3]) <= 2 /\ StrToInt(p[3]) \in 1..31
        THEN p[1] \o <<"-">> \o Pad2(p[2]) \o <<"-">> \o Pad2(p[3])
        ELSE value

\* lines 188-193: the value stored for any other field
StoreValue(label, raw) ==
    LET value == Strip(raw)
    IN  IF value = Placeholder \/ Len(value) = 0 THEN Null
        ELSE IF label \in date_keys THEN Str(DateOrRaw(value))
        ELSE Str(value)

\* A field element: the text of its label (none or one), the texts of its
\* b-person-hovercard elements, the text of its value element (none or one)
Field(label, cards, value) == [label |-> label, cards |-> cards, value |-> value]

CardA == <<"a", "@", "x", ".", "o", "r", "g">>
CardB == <<"b", "@", "y", ".", "o", "r", "g">>
CardBPadded == <<" ">> \o CardB \o <<" ">>
CardSamples == {CardA, CardBPadded, Placeholder, <<" ">>}

ValueSamples ==
    { Placeholder, <<>>, <<" ", "N", "e", "w", " ">>, <<"2", "0", "2", "4", "-", "1", "-", "2">>,
      <<"2", "0", "2", "4", "-", "0", "1", "-", "0", "2">>, <<"2", "0", "2", "4", "-", "1", "3", "-", "0", "2">> }

\* One-field blocks: every user-valued label with every run of cards, every
\* other label with every value
SingleFieldSamples ==
    {<<Field(<<label>>, cards, <<>>)>> :
        label \in user_data_keys,
        cards \in UNION {[1..n -> CardSamples] : n \in 0..MaxCards}}
    \cup {<<Field(<<label>>, <<>>, <<value>>)>> :
            label \in (target_keys_meta \ user_data_keys) \cup {"Hotlists"},
            value \in ValueSamples}

\* The fields longer blocks are built from
FieldSamples ==
    { Field(<<"Reporter">>, <<CardA>>, <<>>),
      Field(<<"Reporter">>, <<Placeholder>>, <<>>),
      Field(<<"CC">>, <<CardA, CardBPadded>>, <<>>),
      Field(<<"Status">>, <<>>, <<<<"N", "e", "w">>>>),
      Field(<<"Status">>, <<>>, <<>>),
      Field(<<>>, <<CardA>>, <<Placeholder>>),
      Field(<<"Reported">>, <<>>, <<<<"2", "0", "2", "4", "-", "1", "-", "2">>>>) }

InitMeta ==
    /\ pc = "meta"
    /\ issue_infos = ScanBase
    /\ field_containers \in
            SingleFieldSamples \cup UNION {[1..n -> FieldSamples] : n \in 0..MaxFields}
    /\ field_idx = 0
    /\ WorkerRestIdle
    /\ MainIdle
    /\ SplitIdle
    /\ DescIdle
    /\ CsvIdle
    /\ PoolIdle
    /\ ScanIdle

metaFrame == <<field_containers, workerRest, mainVars, splitVars, descVars, csvVars,
               poolVars, scanVars>>

\* One iteration of the loop of line 177
MetaField ==
    /\ pc = "meta"
    /\ field_idx < Len(field_containers)
    /\ field_idx' = field_idx + 1
    /\ LET field == field_containers[field_idx + 1]
           label == IF Len(field.label) = 0 THEN "" ELSE field.label[1]
       IN  IF Len(field.label) = 0 \/ label \notin target_keys_meta
           THEN UNCHANGED issue_infos
           ELSE IF label \in user_data_keys
           THEN issue_infos' = Put(issue_infos, OutputKey(label),
                                   StoreUser(label, UserValues(field.cards)))
           ELSE IF Len(field.value) = 0
           THEN UNCHANGED issue_infos
           ELSE issue_infos' = Put(issue_infos, OutputKey(label),
                                   StoreValue(label, field.value[1]))
    /\ UNCHANGED <<pc, metaFrame>>

\* The loop is over
MetaEnd ==
    /\ pc = "meta"
    /\ field_idx = Len(field_containers)
    /\ pc' = "meta_done"
    /\ UNCHANGED <<issue_infos, field_idx, metaFrame>>

\* <edit-issue-metadata> never appeared: lines 195-196
MetaAbsent ==
    /\ pc = "meta"
    /\ field_idx = 0
    /\ pc' = "skipped"
    /\ UNCHANGED <<issue_infos, field_idx, metaFrame>>

NextMeta ==
    \/ MetaField
    \/ MetaEnd
    \/ MetaAbsent

SpecMeta == InitMeta /\ [][NextMeta]_vars

-----------------------------------------------------------------------------
(* A run to its end: one worker step by step, or the processes of main()
   side by side with get_issue as one step *)

\* The worker side takes the partitions of MaxIssues issues that begin with
\* the first ID of the new tracker, the pool side the longest interval
InitRun ==
    \/ /\ Init
       /\ Len(issue_numbers) = MaxIssues
       /\ issue_numbers[1] = LegacyThreshold
       /\ save_interval = MaxSaveInterval
    \/ /\ InitPool
       /\ procs[1].save_interval = MaxSaveInterval

NextRun ==
    \/ Next
    \/ NextPool

\* A process that can take a step is scheduled: none of the steps waits for
\* anything but its own timeouts, and join waits only for the processes
Fairness == WF_vars(NextRun)

SpecRun == InitRun /\ [][NextRun]_vars /\ Fairness

-----------------------------------------------------------------------------
(* Properties of the worker, checked under Spec *)

\* C1: in the issue-page load loop a timeout with the throttle indicator
\* displayed does not consume one of the 5 retry attempts (only plain
\* timeouts do), so a load never ends in failure because of throttled attempts:
\* a failed load has seen 5 plain timeouts.
C1_ThrottleNotCounted ==
    /\ load_result = "failed" => plain_timeouts = 5
    /\ pc = "load" => attempt = plain_timeouts

\* C2: the issue-page load issues at most 5 navigation attempts and the
\* sub-page load at most 3; each fails exactly when all its attempts timed
\* out, and the first success ends the loop without further navigation.
C2_BoundedAttempts ==
    /\ nav_count <= 5
    /\ sub_navs <= 3
    /\ pc = "load" => load_result = "none" /\ nav_count = plain_timeouts + throttles
                       /\ nav_count < 5
    /\ pc = "extract" => load_result = "ok" /\ nav_count = plain_timeouts + throttles + 1
    /\ load_result = "failed" <=> plain_timeouts + throttles = 5
    /\ load_result = "failed" => nav_count = 5 /\ pc = "return"
    /\ pc = "sub" => sub_navs = sub_attempt /\ sub_navs < 3
    /\ pc = "subpage" => sub_navs = sub_attempt + 1
    /\ \A j \in 1..Len(sub_log) :
        /\ sub_log[j].navs <= 3
        /\ sub_log[j].result = "load_failed" => sub_log[j].navs = 3

C2_Witness == pc = "return" /\ load_result = "failed" /\ nav_count = 5 /\ throttles = 2

\* C3: when the issue-page load fails, get_issue returns a record with
\* error=true whose only keys are id (the requested ID as a string), url (the
\* requested URL), error and title; nothing was extracted and no sub-page was
\* visited for the issue; the worker appends the record to its batch like any
\* other (and flushes the batch when it is full).
C3_ErrorRecord ==
    [][ (pc = "return" /\ load_result = "failed") =>
            /\ DOMAIN issue_infos = {"id", "url", "error", "title"}
            /\ issue_infos["id"].kind = "str"
            /\ IsDigit(TextOf(issue_infos["id"]))
            /\ IntToStr(visited[Len(visited)]) = TextOf(issue_infos["id"])
            /\ issue_infos["url"] = Str(IssueUrl(visited[Len(visited)]))
            /\ issue_infos["error"] = Bool(TRUE)
            /\ extracted = EmptyDict /\ sub_log = <<>> /\ sub_navs = 0
            /\ main_issue_url = <<>>
            /\ LET appended == Append(results_batch, issue_infos)
               IN  IF Len(appended) >= save_interval
                   THEN /\ results_batch' = <<>>
                        /\ Len(flush_log') = Len(flush_log) + 1
                        /\ flush_log'[Len(flush_log')].index = file_counter
                        /\ flush_log'[Len(flush_log')].n = Len(appended)
                        /\ flush_log'[Len(flush_log')].ok =>
                                /\ file_counter \in DOMAIN files'
                                /\ files'[file_counter] = CsvOf(appended)
                   ELSE results_batch' = appended /\ files' = files
      ]_vars

C3_Witness ==
    /\ pc = "loop"
    /\ Len(results_batch) = 1
    /\ results_batch[1]["error"] = Bool(TRUE)
    /\ "title" \in DOMAIN results_batch[1]
    /\ results_batch[1]["title"] = Str(<<"Failed to load page">>)
    /\ Len(visited) = 1

\* The URL-bearing keys of a record that line 277 lets through, in the order
\* of url_keys_to_scrape, among the first m keys
ScrapedKeys(infos, m) ==
    LET ks == {k \in 1..m : ShouldScrape(infos, UrlKeys[k])}
        RECURSIVE Ordered(_)
        Ordered(S) == IF S = {} THEN <<>>
                      ELSE LET lo == CHOOSE k \in S : \A j \in S : k <= j
                           IN  <<UrlKeys[lo]>> \o Ordered(S \ {lo})
    IN  Ordered(ks)

\* C4: when a sub-page load fails after its 3 attempts the extractor returns
\* null: none of the derived keys <prefix>_components, <prefix>_revisions,
\* <prefix>_buildtime is added for that prefix, every other field of the
\* record stays as extraction left it, and the remaining URL-bearing keys are
\* still scraped.
C4_SubPageFailureSkipped ==
    /\ \A j \in 1..Len(sub_log) :
          sub_log[j].result = "load_failed" =>
            /\ sub_log[j].navs = 3
            /\ DerivedKeySet(Prefix(sub_log[j].key)) \cap DOMAIN issue_infos = {}
    /\ (pc \in {"sub", "subpage", "return"} /\ load_result = "ok") =>
            /\ \A k \in DOMAIN extracted :
                    k \in DOMAIN issue_infos /\ issue_infos[k] = extracted[k]
            /\ DOMAIN issue_infos \subseteq
                    DOMAIN extracted \cup UNION {DerivedKeySet(Prefix(sub_log[j].key)) :
                                                    j \in 1..Len(sub_log)}
    /\ (pc = "return" /\ load_result = "ok") =>
            [j \in 1..Len(sub_log) |-> sub_log[j].key] = ScrapedKeys(extracted, Len(UrlKeys))
    /\ pc \in {"sub", "subpage"} =>
            [j \in 1..Len(sub_log) |-> sub_log[j].key] = ScrapedKeys(extracted, sub_idx - 1)

C4_Witness ==
    /\ pc = "return"
    /\ Len(sub_log) = 2
    /\ sub_log[1].result = "load_failed"
    /\ sub_log[1].key = "Regressed"
    /\ sub_log[2].result = "table"
    /\ "crash_components" \in DOMAIN issue_infos
    /\ "regressed_components" \notin DOMAIN issue_infos

PersistedIssues ==
    UNION {Range(flush_log[j].reqs) : j \in {i \in 1..Len(flush_log) : flush_log[i].ok}}

\* The work set main() resolves when it is run again on the same target IDs,
\* with the files of this run among the prior batches and an empty filter
SecondRunWorkSet ==
    ResolveSet(Range(issue_numbers), load_processed_ids_from_csvs(Range(files)), {})

\* C7: deduplication idempotence: every target ID processed and persisted by
\* the first run is excluded from the work set of a second run over the same
\* target IDs.
C7_DedupIdempotent ==
    pc = "done" => PersistedIssues \cap SecondRunWorkSet = {}

-----------------------------------------------------------------------------
(* Properties of main(), checked under SpecMain *)

Resolved == mpc \in {"partition", "started", "done"}

\* The id cells of the prior batches that have an id column
PriorIdCells ==
    UNION {{f.rows[k]["id"] : k \in 1..Len(f.rows)} :
           f \in {g \in prior_batches : "id" \in g.header}}

\* A cell that is a JSON number or a JSON string of decimal digits
IsIdCell(c) ==
    \/ IsDigit(c) /\ (Len(c) = 1 \/ c[1] # "0")
    \/ Len(c) >= 3 /\ c[1] = Quote /\ c[Len(c)] = Quote /\ IsDigit(SubSeq(c, 2, Len(c) - 1))

PriorIds == {StrToInt(StripQuotes(c)) : c \in {d \in PriorIdCells : IsIdCell(d)}}

DigitLines == {k \in 1..Len(target_lines) : IsDigit(Strip(target_lines[k]))}

ExampleTargetFile ==
    << <<"1", "2", "3", "\n">>, <<"4", "5", "6", "\n">>, <<"a", "b", "c", "\n">> >>

\* C8: the resolved work set is (the IDs of the digit-only lines of the
\* target file, minus the IDs in the id column of any prior batch) united
\* with the IDs the re-scrape filter selected, whether or not those are
\* processed or in the target file; for the lines 123, 456, abc, a prior
\* batch with id=123 and an empty filter it is {456}.
C8_WorkSet ==
    Resolved =>
        /\ Range(ids_to_process) =
             ({StrToInt(Strip(target_lines[k])) : k \in DigitLines} \ PriorIds)
                \cup Range(id_list)
        /\ (target_lines = ExampleTargetFile /\ prior_batches = {PriorWith123}
                /\ filter_conditions = EmptyDict) => ids_to_process = <<456>>

C8_Witness ==
    /\ Resolved
    /\ target_lines = ExampleTargetFile
    /\ prior_batches = {PriorWith123}
    /\ id_list = <<123>>
    /\ processed_ids = {123}
    /\ ids_to_process = <<456, 123>>

\* The predicate of a filter condition as the claim words it
SaysCondition(condition, cell) ==
    IF condition.type = "bool"
    THEN IF condition.b THEN cell.na ELSE ~cell.na
    ELSE ~cell.na /\ ContainsIgnoreCase(cell.text, condition.s)

\* C9: the re-scrape filter selects exactly the rows that satisfy every
\* column predicate (AND across columns): true = the column is missing/null,
\* false = present/non-null, a string = the column contains that substring
\* case-insensitively; rows {id:1, Status:null}, {id:2, Status:Fixed} with
\* filter {Status: true} select {1}.
C9_FilterSelects ==
    (mpc # "start" /\ mpc # "filter" /\ merged.exists /\ "id" \in merged.columns
        /\ DOMAIN filter_conditions # {}
        /\ DOMAIN filter_conditions \subseteq merged.columns) =>
        /\ Range(id_list) =
             {StrToInt(StripQuotes(r["id"].text)) :
                r \in {q \in Range(merged.rows) :
                        /\ ~q["id"].na
                        /\ IsDigit(StripQuotes(q["id"].text))
                        /\ \A c \in DOMAIN filter_conditions :
                                SaysCondition(filter_conditions[c], q[c])}}
        /\ (merged = MergedTwoRows /\ filter_conditions = [c \in {"Status"} |-> IsMissing])
                => id_list = <<1>>

ChunkSizes == {Len(chunks[j]) : j \in 1..Len(chunks)}

RECURSIVE Flatten(_)
Flatten(ss) == IF Len(ss) = 0 THEN <<>> ELSE Flatten(SubSeq(ss, 1, Len(ss) - 1)) \o ss[Len(ss)]

\* C10: the resolved IDs are deduplicated, sorted descending and split into
\* contiguous, pairwise disjoint, near-equal partitions that cover the list
\* in order; with 8 workers and n IDs there are 8 partitions whenever n >= 8,
\* and fewer (n) only when n < 8.
C10_Partitions ==
    mpc = "started" =>
        LET n == Len(ids_to_process)
        IN  /\ \A j, k \in 1..n : j < k => ids_to_process[j] > ids_to_process[k]
            /\ Flatten(chunks) = ids_to_process
            /\ \A j \in 1..Len(chunks) : Len(chunks[j]) > 0
            /\ \A a, b \in ChunkSizes : a - b <= 1
            /\ Len(chunks) = (IF n >= 8 THEN 8 ELSE n)

-----------------------------------------------------------------------------
(* Properties of split_revision_range, checked under SpecSplit *)

ColonsOf(t) == {k \in 1..Len(t) : t[k] = ":"}

FirstColon(t) == CHOOSE k \in ColonsOf(t) : \A j \in ColonsOf(t) : k <= j

\* C11 as stated: the result is [before, after] of the first ':' if and only
\* if the text contains ':' and both sides are longer than 10 characters, and
\* [text] in every other case.
C11_SplitAtFirstColon ==
    spc = "returned" =>
        IF ColonsOf(text) # {} /\ FirstColon(text) - 1 > 10
              /\ Len(text) - FirstColon(text) > 10
        THEN rev_parts = <<SubSeq(text, 1, FirstColon(text) - 1),
                       SubSeq(text, FirstColon(text) + 1, Len(text))>>
        ELSE rev_parts = <<text>>

\* C11 amended: the result is [before, after] if and only if the text
\* contains exactly one ':' and both sides are longer than 10 characters;
\* in every other case it is [text]; so a revision-range value has exactly
\* one or exactly two tokens.
C11_SplitAtOnlyColon ==
    spc = "returned" =>
        /\ Len(rev_parts) \in {1, 2}
        /\ IF Cardinality(ColonsOf(text)) = 1 /\ FirstColon(text) - 1 > 10
                /\ Len(text) - FirstColon(text) > 10
           THEN rev_parts = <<SubSeq(text, 1, FirstColon(text) - 1),
                          SubSeq(text, FirstColon(text) + 1, Len(text))>>
           ELSE rev_parts = <<text>>

C11_Witness ==
    /\ spc = "returned"
    /\ Len(rev_parts) = 2
    /\ Len(rev_parts[1]) = 11
    /\ Len(rev_parts[2]) = 11

-----------------------------------------------------------------------------
(* Properties of description parsing, checked under SpecDesc *)

\* C12: for every label L of the description vocabulary the line
\* 'L (annotation): value' is matched, case-insensitively, to the key L with
\* the value 'value' (the remainder after the colon that ends the label), and
\* a line 'Lx: value' matches no key.
C12_LabelMatcher ==
    (Len(desc_src) = 1 /\ line_idx = 1) =>
        LET d == desc_src[1]
        IN  /\ (d.kind = "label" /\ Len(d.ann) > 0) =>
                    /\ current_key = d.key
                    /\ issue_infos[d.key] = Str(d.val)
            /\ d.kind = "labelx" =>
                    /\ current_key = NoKey
                    /\ issue_infos \in BaseRecords

CrashTypeLine == LabelLine("Crash Type", <<>>, HeapOverflow)

\* The scalar a label line assigns: its value, cut at the first blank for
\* the URL-bearing key whose value starts with a URL
ScalarOf(d) ==
    IF d.key = "Fixed" /\ d.val = UrlAndText
    THEN <<"h", "t", "t", "p", ":", "/", "/", "u", "/", "r", "e", "v", "i", "s", "i", "o",
           "n", "s", "?", "r", "=", "1">>
    ELSE d.val

\* Lines i+1..i+n of the description are continuation lines
ContinuedBy(i, n) ==
    /\ i + n <= Len(desc_src)
    /\ \A j \in (i + 1)..(i + n) : desc_src[j].kind = "cont"

ContinuationsOf(i, n) == [j \in 1..n |-> Strip(desc_src[i + j].val)]

\* C13: a label line 'K: v' followed directly by n >= 1 continuation lines
\* gives K the list [v, c1, ..., cn] in line order ([c1, ..., cn] when v is
\* empty), and with no continuation the scalar v; ['Crash Type:
\* Heap-overflow', 'extra detail'] gives ['Heap-overflow', 'extra detail'];
\* after a blank line unlabeled lines are appended to no field.
C13_ContinuationAccumulates ==
    /\ [](\A i \in 1..Len(desc_src) : \A n \in 0..(Len(desc_src) - i) :
            (desc_src[i].kind = "label" /\ Len(desc_src[i].ann) = 0
                /\ ContinuedBy(i, n) /\ line_idx = i + n) =>
                /\ desc_src[i].key \in DOMAIN issue_infos
                /\ issue_infos[desc_src[i].key] =
                     (IF n = 0 THEN Str(ScalarOf(desc_src[i]))
                      ELSE IF Len(ScalarOf(desc_src[i])) = 0
                           THEN List(ContinuationsOf(i, n))
                           ELSE List(<<ScalarOf(desc_src[i])>> \o ContinuationsOf(i, n))))
    /\ []((pc = "parsed" /\ desc_src = <<CrashTypeLine, TextLine("cont", ExtraDetail)>>) =>
            issue_infos["Crash Type"] = List(<<HeapOverflow, ExtraDetail>>))
    /\ [][(/\ line_idx' = line_idx + 1
           /\ desc_src[line_idx'].kind = "cont"
           /\ \E b \in 1..line_idx :
                /\ desc_src[b].kind = "blank"
                /\ \A j \in (b + 1)..line_idx : desc_src[j].kind = "cont")
            => issue_infos' = issue_infos]_vars

C13_Witness ==
    /\ pc = "parsed"
    /\ desc_src = <<CrashTypeLine, TextLine("cont", ExtraDetail),
                    TextLine("cont", <<" ", " ", "#", "0", " ", "f", " ", " ">>)>>
    /\ issue_infos["Crash Type"] = List(<<HeapOverflow, ExtraDetail, <<"#", "0", " ", "f">>>>)

\* C14: within one extraction pass a field's value becomes a list only when
\* a continuation line contributes to it, and a value that is a list is
\* never demoted: it stays a list, only growing, until the record is returned.
C14_NeverDemoted ==
    [][\A k \in DOMAIN issue_infos :
          /\ issue_infos[k].kind = "list" =>
                /\ k \in DOMAIN issue_infos'
                /\ issue_infos'[k].kind = "list"
                /\ Len(issue_infos'[k].items) >= Len(issue_infos[k].items)
                /\ SubSeq(issue_infos'[k].items, 1, Len(issue_infos[k].items))
                        = issue_infos[k].items
          /\ (issue_infos[k].kind # "list" /\ issue_infos'[k].kind = "list") =>
                /\ line_idx' = line_idx + 1
                /\ desc_src[line_idx'].kind \in {"cont", "labelx"}
                /\ k = current_key
      ]_vars

-----------------------------------------------------------------------------
(* The sub-page loop of get_issue, checked under Spec *)

-----------------------------------------------------------------------------
(* The sessions of a worker, checked under Spec *)

\* Sessions alive after the first n session events
LiveAfter(n) ==
    Cardinality({k \in 1..n : session_events[k] = "new"})
        - Cardinality({k \in 1..n : session_events[k] = "quit"})

\* C19: from its start to its end the worker owns exactly one live session:
\* on the exception path the old session is quit before the replacement is
\* created (never two at once, none lost), no session is created on any
\* other path, and the session is quit when the partition is finished.
C19_OneSession ==
    /\ \A n \in 1..Len(session_events) : LiveAfter(n) \in {0, 1}
    /\ pc # "done" => LiveAfter(Len(session_events)) = 1
    /\ pc = "done" => LiveAfter(Len(session_events)) = 0
    /\ \A n \in 1..(Len(session_events) - 1) :
            LiveAfter(n) = 0 => session_events[n + 1] = "new"
    /\ Cardinality({k \in 1..Len(session_events) : session_events[k] = "new"}) = 1 + n_exc
    /\ Cardinality({k \in 1..Len(session_events) : session_events[k] = "quit"}) = quits
    /\ driver.session = 1 + n_exc

\* The worker has finished after two restarts
C19_Witness ==
    /\ pc = "done"
    /\ n_exc = 2
    /\ session_events = <<"new", "quit", "new", "quit", "new", "quit">>

-----------------------------------------------------------------------------
(* Properties of batch files, checked under SpecCsv *)

\* The view of a written file that the worker model keeps (CsvOf) is what
\* DictReader reads from the text save_to_csv wrote
CsvOfIsReadOfWrite ==
    cpc \in {"saved", "loaded"} => ReadCsv(csv_text) = CsvOf(csv_data)

\* C15: round trip: each record of a batch written by save_to_csv and read
\* back with every cell JSON-decoded is the original record, with the same
\* keys and the same values (null, strings, lists of strings), also when the
\* records of the batch have different key sets.
C15_RoundTrip ==
    cpc = "loaded" =>
        /\ Len(read_back) = Len(csv_data)
        /\ \A k \in 1..Len(csv_data) :
                read_back[k].ok /\ read_back[k].rec = csv_data[k]

\* C15 (as amended): each record read back has the values of the original
\* record under the original's keys, scalars, lists and null preserved; when
\* the records of the batch have different key sets, it has in addition the
\* keys that only other records of the batch have, each with the value null.
C15_RoundTripUnion ==
    cpc = "loaded" =>
        LET all_keys == UNION {DOMAIN csv_data[k] : k \in 1..Len(csv_data)}
        IN  /\ Len(read_back) = Len(csv_data)
            /\ \A k \in 1..Len(csv_data) :
                    /\ read_back[k].ok
                    /\ DOMAIN read_back[k].rec = all_keys
                    /\ \A key \in DOMAIN csv_data[k] :
                            read_back[k].rec[key] = csv_data[k][key]
                    /\ \A key \in all_keys \ DOMAIN csv_data[k] :
                            read_back[k].rec[key] = Null

\* A batch whose records differ in their keys, holding a string with quotes
\* and commas, a list and a null, has been written and read back
C15_Witness ==
    /\ cpc = "loaded"
    /\ \E j, k \in 1..Len(csv_data) :
            /\ DOMAIN csv_data[j] # DOMAIN csv_data[k]
            /\ "Fixed" \in DOMAIN csv_data[j] /\ csv_data[j]["Fixed"] = Null
            /\ Quote \in {csv_data[j]["title"].items[1][1][n] :
                              n \in 1..Len(csv_data[j]["title"].items[1][1])}
            /\ "Crash State" \in DOMAIN csv_data[k]
            /\ csv_data[k]["Crash State"].kind = "list"
            /\ Len(csv_data[k]["Crash State"].items) = 2
            /\ read_back[k].rec["Crash State"] = csv_data[k]["Crash State"]

-----------------------------------------------------------------------------
(* Properties of the worker processes, checked under SpecPool *)

HandledBy(w) == Range(procs[w].handled)

\* C17: in every interleaving of the worker processes no two of them handle
\* the same issue ID or write to the same file: the partitions are pairwise
\* disjoint, each process writes only under window_<its index>, and the
\* file indices of one process increase strictly from flush to flush, so
\* that no batch file is opened for writing twice.
C17_NoSharing ==
    /\ \A v, w \in DOMAIN procs :
          v # w =>
            /\ Range(chunks[v]) \cap Range(chunks[w]) = {}
            /\ HandledBy(v) \cap HandledBy(w) = {}
            /\ Range(procs[v].paths) \cap Range(procs[w].paths) = {}
    /\ \A w \in DOMAIN procs :
          LET paths == procs[w].paths
          IN  /\ HandledBy(w) \subseteq Range(chunks[w])
              /\ \A j \in 1..Len(paths) : paths[j][1] = w - 1
              /\ \A j, k \in 1..Len(paths) : j < k => paths[j][2] < paths[k][2]
    /\ \A q \in DOMAIN disk : disk[q].by = q[1] + 1
    /\ overwritten = {}

\* Five processes have run to their end and been joined; the first wrote
\* two files, another one wrote one
C17_Witness ==
    /\ mpc = "joined"
    /\ Len(procs) = 5
    /\ Len(procs[1].paths) = 2
    /\ Len(procs[2].paths) = 1
    /\ Len(procs[2].handled) = 2

-----------------------------------------------------------------------------
(* The timeline scan, checked under SpecScan *)

\* The kinds of event that hold a 'Fixed: http' line with '/revisions', or
\* the phrase 'is verified as fixed in' and a revisions anchor
MatchingKinds ==
    {"fixed_line", "fixed_line_extra", "fixed_no_time", "fixed_empty_time", "phrase", "both"}

MatchingEvents == {k \in 1..Len(event_kinds) : event_kinds[k] \in MatchingKinds}

\* C20: the scan takes the events newest-first and stops at the first one
\* that matches: Fixed and fixed_time come from the newest matching event,
\* events without a comment section or without the anchor are passed over,
\* and no older event is examined after a match.
C20_NewestMatch ==
    /\ \A j \in 1..Len(examined) : examined[j] = Len(events) + 1 - j
    /\ \A j \in 1..(Len(examined) - 1) : examined[j] \notin MatchingEvents
    /\ pc = "scan" => issue_infos = ScanBase /\ Range(examined) \cap MatchingEvents = {}
    /\ pc = "scanned" =>
          IF MatchingEvents = {}
          THEN Len(examined) = Len(events) /\ issue_infos = ScanBase
          ELSE LET n == SetMax(MatchingEvents)
                   kind == event_kinds[n]
               IN  /\ examined[Len(examined)] = n
                   /\ DOMAIN issue_infos \ DOMAIN ScanBase \subseteq {"Fixed", "fixed_time"}
                   /\ \A key \in DOMAIN ScanBase : issue_infos[key] = ScanBase[key]
                   /\ issue_infos["Fixed"].kind = "str"
                   /\ StartsWith(TextOf(issue_infos["Fixed"]),
                                 IF kind = "phrase" THEN AnchorUrl(n) ELSE RevisionsUrl(n))
                   /\ IF kind \in {"fixed_no_time", "fixed_empty_time"}
                      THEN "fixed_time" \notin DOMAIN issue_infos
                      ELSE /\ "fixed_time" \in DOMAIN issue_infos
                           /\ issue_infos["fixed_time"] =
                                Str(<<"2024-01-0">> \o IntToStr(n) \o <<" ", "10", ":", "0">>
                                        \o IntToStr(n))

\* The newest event has the phrase but no anchor, the one before has no
\* comment section, the oldest holds the fix: all three were examined
C20_Witness ==
    /\ pc = "scanned"
    /\ event_kinds = <<"fixed_line", "no_section", "phrase_no_anchor">>
    /\ examined = <<3, 2, 1>>
    /\ TextOf(issue_infos["Fixed"]) = RevisionsUrl(1)

-----------------------------------------------------------------------------
(* Termination, checked under SpecRun *)

\* Steps one sub-page extraction can take: its load iterations, the page,
\* the way out
SubBudget == sub_retries + 2

\* Steps one issue can take
IssueBudget == max_retries + Len(UrlKeys) * SubBudget + 5

\* An upper bound of the steps the worker still has to take
WorkerRemaining ==
    LET after == (Len(issue_numbers) - idx - 1) * IssueBudget + 1
        keys == (Len(UrlKeys) - sub_idx) * SubBudget
    IN  CASE pc = "done"    -> 0
          [] pc = "loop"    -> (Len(issue_numbers) - idx) * IssueBudget + 1
          [] pc = "return"  -> after + 1
          [] pc = "subpage" -> after + 1 + keys + 1
          [] pc = "sub"     -> after + 1 + keys + (sub_retries + 1 - sub_attempt)
          [] pc = "extract" -> after + 2 + Len(UrlKeys) * SubBudget
          [] pc = "load"    -> after + 3 + Len(UrlKeys) * SubBudget + (max_retries - attempt)

RECURSIVE PoolRemainingFrom(_)
PoolRemainingFrom(w) ==
    IF w > Len(procs) THEN 0
    ELSE (IF procs[w].finished THEN 0
          ELSE Len(procs[w].issue_numbers) - procs[w].i + 1) + PoolRemainingFrom(w + 1)

\* An upper bound of the steps the processes and the parent have to take
PoolRemaining == (IF mpc = "started" THEN 1 ELSE 0) + PoolRemainingFrom(1)

Remaining == IF pc # "idle" THEN WorkerRemaining ELSE PoolRemaining

IsPrefix(s, t) == Len(s) <= Len(t) /\ s = SubSeq(t, 1, Len(s))

\* C18: every worker finishes its partition, whatever the remote pages do:
\* every step, a timed-out wait included, uses up a bounded budget of
\* retries, keys and issues, so that the end is reached; the issues are
\* visited once each in partition order; at the end the last batch has
\* been flushed and the session quit; the parent completes only once every
\* process has finished.
C18_Terminates ==
    /\ [][Remaining' < Remaining]_vars
    /\ <>(Remaining = 0)
    /\ [](/\ IsPrefix(visited, issue_numbers)
          /\ Len(visited) \in {idx, idx + 1}
          /\ \A w \in DOMAIN procs : IsPrefix(procs[w].handled, chunks[w]))
    /\ [](pc = "done" =>
            /\ visited = issue_numbers
            /\ quits = driver.session
            /\ Len(results_batch) > 0 =>
                    /\ Len(flush_log) > 0
                    /\ flush_log[Len(flush_log)].reqs = batch_reqs
                    /\ flush_log[Len(flush_log)].index = file_counter)
    /\ [](mpc = "joined" =>
            \A w \in DOMAIN procs : procs[w].finished /\ procs[w].handled = chunks[w])

\* The worker is through a partition of MaxIssues issues, one of which
\* raised, and has flushed a last batch
C18_Witness ==
    /\ pc = "done"
    /\ Len(visited) = MaxIssues
    /\ n_exc = 1
    /\ Len(results_batch) > 0
    /\ quits = 2

-----------------------------------------------------------------------------
(* Absent page regions, checked under Spec *)

\* C21: an absent region or table leaves its field out and extraction goes
\* on; in particular, after a sub-page that loaded but never showed its
\* revision table the record holds none of <prefix>_components,
\* <prefix>_revisions, <prefix>_buildtime for that prefix.
C21_NoTableNoDerivedKeys ==
    \A j \in 1..Len(sub_log) :
        sub_log[j].result = "no_table" =>
            DerivedKeySet(Prefix(sub_log[j].key)) \cap DOMAIN issue_infos = {}

-----------------------------------------------------------------------------
(* Sentinel lines of the description, checked under SpecDesc *)

\* The line the loop takes next is no label line
NextIsNoLabel ==
    /\ pc = "desc"
    /\ line_idx < Len(desc_src)
    /\ desc_src[line_idx + 1].kind # "label"

\* C22: a non-label line with 'Issue filed automatically' or 'See ' met
\* while a cursor is set clears the cursor and is dropped; every non-label
\* line after it is dropped too, until a label matches again; the values
\* accumulated so far stay as they are.
C22_SentinelDrops ==
    /\ [][ (NextIsNoLabel /\ desc_src[line_idx + 1].kind = "noise" /\ line_idx' = line_idx + 1)
                => current_key' = NoKey /\ issue_infos' = issue_infos ]_vars
    /\ [][ (NextIsNoLabel /\ current_key = NoKey /\ line_idx' = line_idx + 1)
                => current_key' = NoKey /\ issue_infos' = issue_infos ]_vars

\* A label line, a sentinel and a further line have been consumed: the
\* cursor is cleared and the key holds the scalar of the label line
C22_Witness ==
    /\ line_idx = 3
    /\ desc_src[1] = LabelLine("Crash Type", <<>>, HeapOverflow)
    /\ desc_src[2].kind = "noise"
    /\ desc_src[3] = TextLine("cont", ExtraDetail)
    /\ current_key = NoKey
    /\ issue_infos["Crash Type"] = Str(HeapOverflow)

-----------------------------------------------------------------------------
(* User-valued metadata fields, checked under SpecMeta *)

\* What remains of the cards of a field once the empty and the '--' entries
\* are dropped
RECURSIVE Remaining_cards(_)
Remaining_cards(cards) ==
    IF Len(cards) = 0 THEN <<>>
    ELSE (IF cards[1] = CardA THEN <<CardA>>
          ELSE IF cards[1] = CardBPadded THEN <<CardB>> ELSE <<>>)
            \o Remaining_cards(Tail(cards))

\* The field just consumed is user-valued
UserFieldTaken ==
    /\ pc = "meta"
    /\ field_idx > 0
    /\ Len(field_containers[field_idx].label) = 1
    /\ field_containers[field_idx].label[1] \in user_data_keys

\* C23: for every user-valued field the value stored is null when nothing
\* remains, the scalar string when exactly one value remains, a list when
\* several remain.
C23_UserValue ==
    UserFieldTaken =>
        LET field == field_containers[field_idx]
            rest == Remaining_cards(field.cards)
            stored == issue_infos[field.label[1]]
        IN  /\ Len(rest) = 0 => stored = Null
            /\ Len(rest) = 1 => stored = Str(rest[1])
            /\ Len(rest) > 1 => stored = List(rest)

\* C23 (as amended): null when nothing remains; for Reporter, Assignee and
\* Verifier the scalar string when exactly one value remains and a list
\* when several remain; for Collaborators and CC a list of the remaining
\* values whenever at least one remains.
C23_UserValueByField ==
    UserFieldTaken =>
        LET field == field_containers[field_idx]
            label == field.label[1]
            rest == Remaining_cards(field.cards)
            stored == issue_infos[label]
        IN  /\ Len(rest) = 0 => stored = Null
            /\ (Len(rest) = 1 /\ label \notin {"CC", "Collaborators"}) => stored = Str(rest[1])
            /\ (Len(rest) = 1 /\ label \in {"CC", "Collaborators"}) => stored = List(rest)
            /\ Len(rest) > 1 => stored = List(rest)

\* A CC field with a placeholder and one name has been consumed
C23_Witness ==
    /\ UserFieldTaken
    /\ field_containers[field_idx].label[1] = "CC"
    /\ field_containers[field_idx].cards = <<Placeholder, CardBPadded>>
    /\ issue_infos["CC"] = List(<<CardB>>)

-----------------------------------------------------------------------------
(* Failed writes, checked under Spec *)

\* The step writes a batch and the write fails
FlushFails ==
    /\ Len(flush_log') = Len(flush_log) + 1
    /\ ~flush_log'[Len(flush_log')].ok

-----------------------------------------------------------------------------
(* Unknown filter columns, checked under SpecMain *)

\* The filter columns the prior table has
KnownColumns == DOMAIN filter_conditions \cap merged.columns

\* The IDs of the rows that satisfy the predicate of every column in cols
SelectedBy(cols) ==
    {StrToInt(StripQuotes(r["id"].text)) :
        r \in {q \in Range(merged.rows) :
                /\ ~q["id"].na
                /\ IsDigit(StripQuotes(q["id"].text))
                /\ \A c \in cols : SaysCondition(filter_conditions[c], q[c])}}

\* C25: a filter column the prior table does not have does not contribute:
\* the selected rows are exactly those satisfying the predicates of the known
\* columns, and with an empty filter or no known column no ID is selected.
C25_KnownColumns ==
    (mpc # "start" /\ mpc # "filter") =>
        IF ~merged.exists \/ KnownColumns = {} THEN id_list = <<>>
        ELSE "id" \in merged.columns => Range(id_list) = SelectedBy(KnownColumns)

\* The part of C25 that is about the unknown columns alone: the selection is
\* what the code's own column masks give on the known columns, and nothing is
\* selected when there is none
C25_UnknownSkipped ==
    (mpc # "start" /\ mpc # "filter" /\ merged.exists /\ "id" \in merged.columns) =>
        Range(id_list) =
            IF KnownColumns = {} THEN {}
            ELSE {StrToInt(StripQuotes(r["id"].text)) :
                    r \in {q \in Range(merged.rows) :
                            /\ ~q["id"].na
                            /\ IsDigit(StripQuotes(q["id"].text))
                            /\ \A c \in KnownColumns :
                                    ConditionMask(filter_conditions[c], q[c])}}

\* The failing input has been filtered: one unknown column, one known column
\* with a substring predicate, and the row whose Status is missing selected
C25_FailingInput ==
    ~(/\ mpc # "start" /\ mpc # "filter"
      /\ merged = MergedTwoRows
      /\ DOMAIN filter_conditions = {"Fuzzer", "Status"}
      /\ filter_conditions["Status"].type = "str"
      /\ id_list = <<1>>)

-----------------------------------------------------------------------------
(* Exactly-once persistence, checked under Spec *)

\* The issues whose records have gone to a flush, in the order written
WrittenReqs == Flatten([j \in 1..Len(flush_log) |-> flush_log[j].reqs])

AllWritesOk == \A j \in 1..Len(flush_log) : flush_log[j].ok

\* The records a flushing step hands to save_to_csv
FlushedBatch ==
    IF pc = "return" THEN Append(results_batch, issue_infos) ELSE results_batch

StrictlyDescending(s) == \A j \in 1..(Len(s) - 1) : s[j] > s[j + 1]

-----------------------------------------------------------------------------
(* The id of a record, checked under Spec *)

\* get_issue holds the record of a page that loaded
RecordOfLoadedPage == pc \in {"sub", "subpage", "return"} /\ load_result = "ok"

\* The id is set when the record is created and stays as it is while the
\* sub-pages are extracted
C27_IdNeverChanges ==
    /\ [][(Truthy(issue_infos) /\ Truthy(issue_infos')) =>
            issue_infos'["id"] = issue_infos["id"]]_vars
    /\ [](RecordOfLoadedPage => issue_infos["id"] = Str(LastPart(main_issue_url, "/")))

\* C27: the id stored in the record of a successfully loaded issue is the
\* issue ID the worker was asked to process, so that the loader of the next
\* run counts the requested ID as processed once the record is in a file;
\* the id is assigned when the record is created and never changed.
C27_IdIsRequested ==
    /\ [](RecordOfLoadedPage => issue_infos["id"] = Str(IntToStr(issue_no)))
    /\ [](pc = "done" =>
            \A j \in 1..Len(flush_log) :
                flush_log[j].ok =>
                    Range(flush_log[j].reqs) \subseteq
                        load_processed_ids_from_csvs({files[flush_log[j].index]}))
    /\ C27_IdNeverChanges

\* The failing input has been processed: the legacy issue loaded without a
\* redirect and its record carries the tail of the legacy URL as id
C27_FailingInput ==
    ~(/\ RecordOfLoadedPage
      /\ issue_no = 123
      /\ main_issue_url = IssueUrl(123)
      /\ issue_infos["id"] = Str(<<"detail?id", "=", "1", "2", "3">>))

-----------------------------------------------------------------------------
(* Fixed from the timeline and from the description, checked under SpecDesc *)

\* The timeline scan has set Fixed and fixed_time
TimelineFixed == "fixed_time" \in DOMAIN issue_infos

\* The lines read so far that carry the label Fixed
FixedLabelLines ==
    {k \in 1..line_idx : "Fixed" \in MatchingKeys(LineStripped(description_lines[k]))}

\* The value of the last Fixed label line read
DescriptionFixed ==
    LabelValue("Fixed", LineStripped(description_lines[SetMax(FixedLabelLines)]))

\* C28: when the timeline scan has set Fixed and fixed_time and the
\* description has a 'Fixed:' label line, that line replaces the timeline's
\* Fixed by its own value while fixed_time keeps the timeline's timestamp;
\* the sub-page loop then reads the description's value for prefix 'fixed'
\* (and navigates to it when it is still a scalar that starts with http).
C28_DescriptionWins ==
    /\ [][ (TimelineFixed /\ line_idx' = line_idx + 1
                /\ "Fixed" \in MatchingKeys(LineStripped(description_lines[line_idx + 1]))) =>
            /\ issue_infos'["Fixed"] =
                    Str(LabelValue("Fixed", LineStripped(description_lines[line_idx + 1])))
            /\ issue_infos'["fixed_time"] = issue_infos["fixed_time"] ]_vars
    /\ [](TimelineFixed => issue_infos["fixed_time"] = Str(FixedTime))
    /\ []((TimelineFixed /\ FixedLabelLines # {}) =>
            /\ \/ issue_infos["Fixed"] = Str(DescriptionFixed)
               \/ /\ issue_infos["Fixed"].kind = "list"
                  /\ issue_infos["Fixed"].items[1] = Str(DescriptionFixed).items[1]
            /\ issue_infos["Fixed"] # Str(SubUrlB)
            /\ ShouldScrape(issue_infos, "Fixed") =>
                    /\ TextOf(issue_infos["Fixed"]) = DescriptionFixed
                    /\ UrlKeys[NextSub(issue_infos, 1)] = "Fixed")
    /\ []((TimelineFixed /\ FixedLabelLines = {}) => issue_infos["Fixed"] = Str(SubUrlB))

\* The description of a record with a timeline Fixed has been parsed; its
\* Fixed line gave another URL, which is the one the sub-page loop will
\* visit, and fixed_time is still the timeline's
C28_Witness ==
    /\ pc = "parsed"
    /\ TimelineFixed
    /\ FixedLabelLines # {}
    /\ issue_infos["Fixed"] = Str(FirstToken(UrlAndText))
    /\ issue_infos["fixed_time"] = Str(FixedTime)
    /\ ShouldScrape(issue_infos, "Fixed")

-----------------------------------------------------------------------------
(* Which keys are scraped, checked under Spec *)

\* The value description parsing left under the key is a scalar string that
\* starts with 'http'
ScalarUrl(key) ==
    /\ key \in DOMAIN extracted
    /\ extracted[key].kind = "str"
    /\ Len(extracted[key].items[1][1]) >= 4
    /\ SubSeq(extracted[key].items[1][1], 1, 4) = <<"h", "t", "t", "p">>

PositionOf(key) == CHOOSE k \in 1..Len(UrlKeys) : UrlKeys[k] = key

AttemptedKeys == [j \in 1..Len(sub_log) |-> sub_log[j].key]

\* C29: sub-page extraction is attempted, in the order Regressed, Fixed,
\* Crash Revision, only for a key whose value at the end of description
\* parsing is a scalar string starting with 'http'; a key whose value is a
\* list, another text, or missing causes no navigation and gets no derived
\* keys.
C29_OnlyScalarUrls ==
    /\ \A j \in 1..Len(sub_log) :
            /\ ScalarUrl(sub_log[j].key)
            /\ \A i \in 1..(j - 1) : PositionOf(sub_log[i].key) < PositionOf(sub_log[j].key)
    /\ (pc \in {"sub", "subpage"}) =>
            /\ ScalarUrl(UrlKeys[sub_idx])
            /\ \A k \in 1..(sub_idx - 1) :
                    ScalarUrl(UrlKeys[k]) <=> (\E j \in 1..Len(sub_log) : sub_log[j].key = UrlKeys[k])
    /\ (pc \in {"sub", "subpage", "return"} /\ load_result = "ok") =>
            \A k \in 1..Len(UrlKeys) :
                ~ScalarUrl(UrlKeys[k]) =>
                    /\ \A j \in 1..Len(sub_log) : sub_log[j].key # UrlKeys[k]
                    /\ DerivedKeySet(Prefix(UrlKeys[k])) \cap DOMAIN issue_infos = {}
                    /\ pc # "return" => sub_idx # k
    /\ (pc = "return" /\ load_result = "ok") =>
            /\ \A k \in 1..Len(UrlKeys) :
                    ScalarUrl(UrlKeys[k]) <=> (\E j \in 1..Len(sub_log) : sub_log[j].key = UrlKeys[k])
            /\ Len(sub_log) = 0 => (nav_count = 0 /\ sub_navs = 0 /\ driver.current_url = main_issue_url)

\* A page whose Fixed was promoted to a list and whose Crash Revision is a
\* plain text has been extracted without a single sub-page visit
C29_Witness ==
    /\ pc = "return"
    /\ load_result = "ok"
    /\ "Fixed" \in DOMAIN extracted
    /\ extracted["Fixed"].kind = "list"
    /\ sub_log = <<>>
    /\ issue_infos = extracted

-----------------------------------------------------------------------------
(* One key per description line, checked under SpecDesc *)

LineAt(k) == LineStripped(description_lines[k])

\* C30: at most one key of the description vocabulary matches a description
\* line, so the key and the value taken from a label line do not depend on
\* the order in which the vocabulary is tried; a line labelled 'Fuzzer
\* binary' or 'Fuzz target binary' is matched by that key alone, never by
\* 'Fuzzer' or 'Fuzz Target'.
C30_OneKeyPerLine ==
    /\ \A k \in 1..Len(description_lines) :
            /\ Cardinality(MatchingKeys(LineAt(k))) <= 1
            /\ (desc_src[k].kind = "label"
                    /\ desc_src[k].key \in {"Fuzzer binary", "Fuzz target binary"}) =>
                    MatchingKeys(LineAt(k)) = {desc_src[k].key}
    /\ (line_idx >= 1 /\ MatchingKeys(LineAt(line_idx)) # {}) =>
            /\ MatchingKeys(LineAt(line_idx)) = {current_key}
            /\ issue_infos[current_key] = Str(LabelValue(current_key, LineAt(line_idx)))
            /\ desc_src[line_idx].kind = "label" => current_key = desc_src[line_idx].key
    /\ (Len(desc_src) = 1 /\ pc = "parsed" /\ desc_src[1].kind = "label"
            /\ desc_src[1].key \in {"Fuzzer binary", "Fuzz target binary"}) =>
            /\ "Fuzzer" \notin DOMAIN issue_infos
            /\ "Fuzz Target" \notin DOMAIN issue_infos

\* A line 'fuzz target binary (1.2 Kb): value' has been parsed and stored
\* under 'Fuzz target binary'
C30_Witness ==
    /\ pc = "parsed"
    /\ desc_src = <<LowerLabelLine("Fuzz target binary", SizeAnnotation, SomeValue)>>
    /\ current_key = "Fuzz target binary"
    /\ issue_infos["Fuzz target binary"] = Str(SomeValue)
    /\ "Fuzz Target" \notin DOMAIN issue_infos

====
